---- MODULE Spec2Model ----
(***************************************************************************)
(* CloudChef print server: connection registry (AgentManager), job ledger  *)
(* (PrintQueueManager), per-socket rate limiter (SocketRateLimiter), agent *)
(* token gate (verifyAgentToken) and the Socket.IO event handlers          *)
(* (initializeSocketHandlers).                                             *)
(*                                                                         *)
(* Two builds of the handlers are in the repository:                       *)
(*   - the compiled build (token gate + already-registered guard), whose   *)
(*     text is in src/dist/middleware/auth.d.ts lines 122-617: Spec;       *)
(*   - the TypeScript source src/src/socket/handlers.ts, which has neither *)
(*     the token gate nor the guard: SpecSrc.                              *)
(* All other handlers are the same text in both builds.                    *)
(*                                                                         *)
(* Not modelled: labelData (opaque payload), version, ip, os, connectedAt  *)
(* (written once by register, read by no handler), logging.                *)
(***************************************************************************)
EXTENDS Integers, Sequences, FiniteSets, TLC

(* ------------------------------ bounds -------------------------------- *)
\* the clock (Date.now()) runs 0..MaxTime
MaxTime == 1
\* uuid v4 values handed out as agent ids: 1..MaxAgents
MaxAgents == 2
\* uuid v4 values handed out as command ids: 1..MaxCommands
MaxCommands == 3

(* ------------------- program constants (scaled) ----------------------- *)
\* PrintQueueManager.maxHistorySize (1000 in the source)
maxHistorySize == 2
\* SocketRateLimiter.maxRequests (50 in the source)
maxRequests == 2
\* SocketRateLimiter.windowMs (60000 in the source): one clock tick
windowMs == 1
\* AgentManager.cleanup staleThreshold (5 * 60 * 1000 in the source): a record is
\* stale once the clock has moved past its lastSeen
staleThreshold == 0

(* ------------------------------ values -------------------------------- *)
\* socket ids; a socket id is never reused after its connection closed
Sockets == {1, 2}
\* room keys / pairing codes a client may send
Rooms == {"R1", "R2"}
\* JavaScript undefined and null
Undef == "undefined"
Null == "null"
\* socket.data.agentId not set
NoAgent == 0
\* completedAt not set
NoTime == -1
\* printerInfo: only its status is read (handlers line 401); Null = no printerInfo
PrinterInfos == {Null, "ready", "busy"}

\* handshake.auth.token values
\*   "agent_R1"      well-formed agent token, active row bound to code R1
\*   "agent_revoked" well-formed agent token whose row has is_active = false
\*   "agent_unknown" well-formed agent token with no row
\*   "agent_r1"      agent token with a lowercase code part (malformed)
\*   "jwt_u1"        session token signed with the secret, userId u1
\*   "jwt_bad"       session token that fails jwt.verify
\*   Undef           no token in the handshake
Tokens == {Undef, "agent_R1", "agent_revoked", "agent_unknown", "agent_r1", "jwt_u1", "jwt_bad"}
ClientTypes == {"agent", "web"}

\* rows of the agent_tokens table (the external credential store)
agent_tokens ==
  { [token |-> "agent_R1", id |-> "t1", restaurant_code |-> "R1", is_active |-> TRUE],
    [token |-> "agent_revoked", id |-> "t2", restaurant_code |-> "R1", is_active |-> FALSE] }

VARIABLES
  now,        \* Date.now()
  sock,       \* per socket: connection phase, handshake, socket.data, rooms joined
  agents,     \* AgentManager.agents: Map in insertion order, as a sequence of records
  commands,   \* PrintQueueManager.commands: Map in insertion order, as a sequence
  requests,   \* SocketRateLimiter.requests: socket id -> timestamps
  nextAgent,  \* number of agent uuids handed out
  nextCommand,\* number of command uuids handed out
  out,        \* the events emitted (and callbacks called) by the last step
  relay,      \* the pairing-code relay build: its sockets and its three Maps,
              \* and the connectionLimits Map of its connection middleware
  admitted    \* history: per limiter key, the times of the calls the limiter admitted

vars == <<now, sock, agents, commands, requests, nextAgent, nextCommand, out, relay, admitted>>

(* ------------------------- sequence helpers --------------------------- *)
Range(s) == {s[i] : i \in DOMAIN s}

\* JavaScript truthiness of the strings used here
Truthy(v) == v # Undef /\ v # Null /\ v # ""

\* a || b
Or(a, b) == IF Truthy(a) THEN a ELSE b

\* first index of s satisfying Test, 0 when none (Array.prototype.find / Map iteration)
FirstIndex(s, Test(_)) ==
  IF \E i \in DOMAIN s : Test(s[i])
  THEN CHOOSE i \in DOMAIN s : Test(s[i]) /\ \A j \in 1..(i-1) : ~Test(s[j])
  ELSE 0

RemoveAt(s, i) == SubSeq(s, 1, i-1) \o SubSeq(s, i+1, Len(s))

\* String.prototype.toUpperCase on the strings used here
toUpperCase(v) == IF v = "unknown" THEN "UNKNOWN" ELSE IF v = "agent_r1" THEN "AGENT_R1" ELSE v

(* ------------------- AgentManager (connection registry) --------------- *)
\* AgentManager.register that keeps one agent per room: the records of the same
\* restaurant are replaced by the new one
register_onePerRoom(ags, agentId, socketId, restaurantId, userId, code, printerInfo, t) ==
  Append(SelectSeq(ags, LAMBDA a : a.restaurantId # restaurantId),
         [id |-> agentId, socketId |-> socketId, restaurantId |-> restaurantId,
          userId |-> userId, code |-> toUpperCase(Or(code, "")),
          printerInfo |-> printerInfo, lastSeen |-> t])

\* AgentManager.register: unconditional Map.set under the agent id
register(ags, agentId, socketId, restaurantId, userId, code, printerInfo, t) ==
  LET agent == [id |-> agentId, socketId |-> socketId, restaurantId |-> restaurantId,
                userId |-> userId, code |-> toUpperCase(Or(code, "")),
                printerInfo |-> printerInfo, lastSeen |-> t]
      i == FirstIndex(ags, LAMBDA a : a.id = agentId)
  IN  IF i = 0 THEN Append(ags, agent) ELSE [ags EXCEPT ![i] = agent]

\* AgentManager.register of the TypeScript source: the code is stored as given
registerSrc(ags, agentId, socketId, restaurantId, userId, code, printerInfo, t) ==
  LET agent == [id |-> agentId, socketId |-> socketId, restaurantId |-> restaurantId,
                userId |-> userId, code |-> code,
                printerInfo |-> printerInfo, lastSeen |-> t]
      i == FirstIndex(ags, LAMBDA a : a.id = agentId)
  IN  IF i = 0 THEN Append(ags, agent) ELSE [ags EXCEPT ![i] = agent]

\* AgentManager.unregisterBySocketId: deletes the first record of the socket, then returns
unregisterBySocketId(ags, socketId) ==
  LET i == FirstIndex(ags, LAMBDA a : a.socketId = socketId)
  IN  IF i = 0 THEN ags ELSE RemoveAt(ags, i)

\* AgentManager.updateLastSeen that refreshes every record of the registry
updateLastSeen_everyRecord(ags, agentId, t) ==
  [i \in DOMAIN ags |-> [ags[i] EXCEPT !.lastSeen = t]]

\* AgentManager.updateLastSeen
updateLastSeen(ags, agentId, t) ==
  [i \in DOMAIN ags |-> IF ags[i].id = agentId THEN [ags[i] EXCEPT !.lastSeen = t] ELSE ags[i]]

\* AgentManager.updatePrinterInfo that leaves lastSeen as it was
updatePrinterInfo_keepLastSeen(ags, agentId, printerInfo, t) ==
  [i \in DOMAIN ags |->
     IF ags[i].id = agentId THEN [ags[i] EXCEPT !.printerInfo = printerInfo] ELSE ags[i]]

\* AgentManager.updatePrinterInfo
updatePrinterInfo(ags, agentId, printerInfo, t) ==
  [i \in DOMAIN ags |->
     IF ags[i].id = agentId
     THEN [ags[i] EXCEPT !.printerInfo = printerInfo, !.lastSeen = t]
     ELSE ags[i]]

\* AgentManager.getAgent: the records with this id (none = undefined)
getAgent(ags, agentId) == SelectSeq(ags, LAMBDA a : a.id = agentId)

\* AgentManager.getAgentBySocketId: the first record of the socket (<<>> = undefined)
getAgentBySocketId(ags, socketId) ==
  LET i == FirstIndex(ags, LAMBDA a : a.socketId = socketId)
  IN  IF i = 0 THEN <<>> ELSE <<ags[i]>>

\* AgentManager.getAllAgents
getAllAgents(ags) == ags

\* AgentManager.getAgentsByRestaurant
getAgentsByRestaurant(ags, restaurantId) ==
  SelectSeq(ags, LAMBDA a : a.restaurantId = restaurantId)

\* AgentManager.cleanup that also drops a record exactly staleThreshold old
AgentManager_cleanup_inclusive(ags, t) ==
  SelectSeq(ags, LAMBDA a : ~(t - a.lastSeen >= staleThreshold))

\* AgentManager.cleanup that spares the records whose connection is still open
AgentManager_cleanup_connected(ags, t) ==
  SelectSeq(ags, LAMBDA a : ~(t - a.lastSeen > staleThreshold /\ sock[a.socketId].phase # "open"))

\* AgentManager.cleanup: drops every record with now - lastSeen > staleThreshold
AgentManager_cleanup(ags, t) ==
  SelectSeq(ags, LAMBDA a : ~(t - a.lastSeen > staleThreshold))

(* ------------------- PrintQueueManager (job ledger) ------------------- *)
\* Array.prototype.sort((a, b) => b.createdAt - a.createdAt): stable, newest first
InsertByCreatedDesc(sorted, e) ==
  LET i == FirstIndex(sorted, LAMBDA c : c.createdAt < e.createdAt)
  IN  IF i = 0 THEN Append(sorted, e)
      ELSE SubSeq(sorted, 1, i-1) \o <<e>> \o SubSeq(sorted, i, Len(sorted))

RECURSIVE SortByCreatedDesc(_)
SortByCreatedDesc(s) ==
  IF s = <<>> THEN <<>>
  ELSE InsertByCreatedDesc(SortByCreatedDesc(SubSeq(s, 1, Len(s)-1)), s[Len(s)])

\* PrintQueueManager.cleanup: sort newest first, keep the first maxHistorySize
PrintQueueManager_cleanup(cmds) ==
  LET sorted == SortByCreatedDesc(cmds)
  IN  SubSeq(sorted, 1, IF Len(sorted) < maxHistorySize THEN Len(sorted) ELSE maxHistorySize)

\* PrintQueueManager.createCommand
createCommand(cmds, id, restaurantId, userId, agentId, t) ==
  LET command == [id |-> id, restaurantId |-> restaurantId, userId |-> userId,
                  agentId |-> agentId, status |-> "pending", createdAt |-> t,
                  completedAt |-> NoTime, error |-> Undef]
      i == FirstIndex(cmds, LAMBDA c : c.id = id)
      set == IF i = 0 THEN Append(cmds, command) ELSE [cmds EXCEPT ![i] = command]
  IN  IF Len(set) > maxHistorySize THEN PrintQueueManager_cleanup(set) ELSE set

\* updateStatus without the write of completedAt (lines 189-191 left out)
updateStatus_noCompletedAt(cmds, commandId, status, error, t) ==
  [i \in DOMAIN cmds |->
     IF cmds[i].id = commandId
     THEN [cmds[i] EXCEPT !.status = status, !.error = IF Truthy(error) THEN error ELSE @]
     ELSE cmds[i]]

\* updateStatus that creates the record when the id is unknown
updateStatus_upsert(cmds, commandId, status, error, t) ==
  IF \E i \in DOMAIN cmds : cmds[i].id = commandId
  THEN [i \in DOMAIN cmds |->
          IF cmds[i].id = commandId
          THEN [cmds[i] EXCEPT
                  !.status = status,
                  !.error = IF Truthy(error) THEN error ELSE @,
                  !.completedAt = IF status \in {"success", "failed"} THEN t ELSE @]
          ELSE cmds[i]]
  ELSE Append(cmds, [id |-> commandId, restaurantId |-> Undef, userId |-> Undef,
                     agentId |-> NoAgent, status |-> status, createdAt |-> t,
                     completedAt |-> NoTime, error |-> Undef])

\* PrintQueueManager.updateStatus
updateStatus(cmds, commandId, status, error, t) ==
  [i \in DOMAIN cmds |->
     IF cmds[i].id = commandId
     THEN [cmds[i] EXCEPT
             !.status = status,
             !.error = IF Truthy(error) THEN error ELSE @,
             !.completedAt = IF status \in {"success", "failed"} THEN t ELSE @]
     ELSE cmds[i]]

\* PrintQueueManager.getCommand: the records with this id (none = undefined)
getCommand(cmds, commandId) == SelectSeq(cmds, LAMBDA c : c.id = commandId)

(* ------------------- SocketRateLimiter -------------------------------- *)
\* check that admits every call
check_always(reqs, socketId, t) == TRUE

\* validTimestamps that keeps a timestamp for one tick longer (now - ts <= windowMs)
validTimestamps_inclusive(reqs, socketId, t) ==
  SelectSeq(reqs[socketId], LAMBDA ts : t - ts <= windowMs)

\* the timestamps of the key still inside the window
validTimestamps(reqs, socketId, t) ==
  SelectSeq(reqs[socketId], LAMBDA ts : t - ts < windowMs)

\* SocketRateLimiter.check: the verdict
check(reqs, socketId, t) == ~(Len(validTimestamps(reqs, socketId, t)) >= maxRequests)

\* SocketRateLimiter.check: the map after the call (a denied call stores nothing)
checkRequests(reqs, socketId, t) ==
  IF check(reqs, socketId, t)
  THEN [reqs EXCEPT ![socketId] = Append(validTimestamps(reqs, socketId, t), t)]
  ELSE reqs

\* SocketRateLimiter.remove (an absent key is the empty sequence)
remove(reqs, socketId) == [reqs EXCEPT ![socketId] = <<>>]

\* SocketRateLimiter.cleanup: every key keeps its timestamps inside the window; a
\* key left with none is deleted
SocketRateLimiter_cleanup(reqs, t) ==
  [socketId \in DOMAIN reqs |-> validTimestamps(reqs, socketId, t)]

(* ------------------- Auth gate ---------------------------------------- *)
\* the pattern with the i flag: a lowercase code part matches too
agentKeyPattern_ignoreCase(token) ==
  token \in {"agent_R1", "agent_revoked", "agent_unknown", "agent_r1"}

\* /^agent_([A-Z0-9]{8})_([a-f0-9]{32})$/ on the tokens used here
agentKeyPattern(token) == token \in {"agent_R1", "agent_revoked", "agent_unknown"}

\* how a request to the credential store ends: it answers from the table, it
\* answers with an error result, or the client throws
StoreErrors == {"none", "error", "throw"}

\* verifyAgentToken without its try/catch: the exception leaves the function
\* (threw = the promise is rejected)
caught_rethrown ==
  [valid |-> FALSE, restaurantCode |-> Undef, tokenId |-> Undef, error |-> Undef, threw |-> TRUE]

\* auth.ts lines 126-133: the catch block of verifyAgentToken returns a failure
caught ==
  [valid |-> FALSE, restaurantCode |-> Undef, tokenId |-> Undef, error |-> "error", threw |-> FALSE]

\* verifyAgentToken up to its return after the lookup; storeError = how the select
\* ended.  threw = the call rejects instead of returning a result.
verifyAgentToken(token, storeError) ==
  IF ~agentKeyPattern(token)
  THEN [valid |-> FALSE, restaurantCode |-> Undef, tokenId |-> Undef, error |-> "format",
        threw |-> FALSE]
  ELSE LET rows == {r \in agent_tokens : r.token = token /\ r.is_active}
       IN  IF storeError = "throw" THEN caught
           ELSE IF storeError = "error" \/ rows = {}
           THEN [valid |-> FALSE, restaurantCode |-> Undef, tokenId |-> Undef,
                 error |-> "revoked", threw |-> FALSE]
           ELSE [valid |-> TRUE, restaurantCode |-> (CHOOSE r \in rows : TRUE).restaurant_code,
                 tokenId |-> (CHOOSE r \in rows : TRUE).id, error |-> Undef, threw |-> FALSE]

\* verifySocketToken that decodes the token without verifying it
verifySocketToken_decodeOnly(token) == IF token \in {"jwt_u1", "jwt_bad"} THEN "u1" ELSE Null

\* verifySocketToken: the userId of the verified session token, Null when there is none
verifySocketToken(token) == IF token = "jwt_u1" THEN "u1" ELSE Null

(* ------------------- emitted events ----------------------------------- *)
\* socket.emit(ev, p)
EmitSock(s, ev, p) == [ev |-> ev, toSock |-> s, toRoom |-> "", p |-> p]
\* io.to(`restaurant:${room}`).emit(ev, p)
EmitRoom(room, ev, p) == [ev |-> ev, toSock |-> 0, toRoom |-> room, p |-> p]
\* io.emit(ev, p)
EmitAll(ev, p) == [ev |-> ev, toSock |-> 0, toRoom |-> "*", p |-> p]
\* supabaseAdmin.from('agent_tokens'): a request sent to the credential store
EmitStore(op, key) == [ev |-> op, toSock |-> 0, toRoom |-> "agent_tokens", p |-> key]
\* callback(p), when the client passed one
Callback(s, cb, p) == IF cb THEN <<[ev |-> "callback", toSock |-> s, toRoom |-> "", p |-> p]>> ELSE <<>>

(* ------------------- the pairing-code relay build: values -------------- *)
\* socket.id of the connections to the relay server
RelaySockets == {1, 2, 3}
\* no socket in a slot (null after a disconnect, undefined before a registration)
NoSocket == 0
\* socket.handshake.address: sockets 1 and 2 connect from one host, socket 3 from another
address(s) == IF s = 3 THEN "10.0.0.2" ELSE "10.0.0.1"
Addresses == {address(s) : s \in RelaySockets}
\* pairing codes of six characters, the keys of the connections Map
RelayCodes == {"123456", "654321"}
\* data.code as a client may send it: a pairing code, a short code, none
RelayCodeInputs == RelayCodes \cup {"12", Undef}
\* code.length
codeLength(code) == IF code \in RelayCodes THEN 6 ELSE 2
\* rateLimitMiddleware windowMs (60000 in the source): two clock ticks
connectionWindowMs == 2
\* rateLimitMiddleware maxConnections (10 in the source)
maxConnections == 2
\* the clock of the limiter specification runs over 0..MaxCallTime
MaxCallTime == 3

\* connections.get(code) of a code that has no entry
NoEntry == [present |-> FALSE, agent |-> NoSocket, browser |-> NoSocket]

\* the relay server after start: no connection, empty Maps
NewRelay ==
  [open |-> [s \in RelaySockets |-> FALSE],
   connections |-> [code \in RelayCodes |-> NoEntry],
   agents |-> [s \in RelaySockets |-> Undef],
   browsers |-> [s \in RelaySockets |-> Undef],
   connectionLimits |-> [ip \in Addresses |-> <<>>]]

(* ------------------- initial state ------------------------------------ *)
NewSocket ==
  [phase |-> "new", clientType |-> Undef, token |-> Undef, authUser |-> Null,
   agentTokenVerified |-> FALSE, verifiedRestaurantCode |-> Undef,
   agentId |-> NoAgent, role |-> Undef, restaurantId |-> Undef, code |-> Undef,
   userId |-> Undef, rooms |-> {}]

Init ==
  /\ now = 0
  /\ sock = [s \in Sockets |-> NewSocket]
  /\ agents = <<>>
  /\ commands = <<>>
  /\ requests = [s \in Sockets |-> <<>>]
  /\ nextAgent = 0
  /\ nextCommand = 0
  /\ out = <<>>
  /\ relay = NewRelay
  /\ admitted = [check |-> [s \in Sockets |-> <<>>], connection |-> [ip \in Addresses |-> <<>>]]

(* ------------------- connection (compiled build) ---------------------- *)
\* io.on('connection') that attaches the handlers before it awaits the validation:
\* the connection takes events at once
Connect_handlersFirst(s, clientType, token) ==
  /\ sock[s].phase = "new"
  /\ sock' = [sock EXCEPT ![s].phase = "open", ![s].clientType = clientType,
                          ![s].token = token]
  /\ out' = <<>>
  /\ UNCHANGED <<relay, admitted, now, agents, commands, requests, nextAgent, nextCommand>>

\* io.on('connection'): up to the await of verifyAgentToken, or to the end when
\* the socket is no agent or carries no token
Connect(s, clientType, token) ==
  /\ sock[s].phase = "new"
  /\ IF clientType = "agent" /\ Truthy(token)
     THEN /\ sock' = [sock EXCEPT ![s].phase = "verifying", ![s].clientType = clientType,
                                  ![s].token = token]
          \* verifyAgentToken lines 77-96: the store is queried once the format matched
          /\ out' = IF agentKeyPattern(token) THEN <<EmitStore("select", token)>> ELSE <<>>
     ELSE /\ sock' = [sock EXCEPT ![s].phase = "open", ![s].clientType = clientType,
                                  ![s].token = token,
                                  ![s].authUser = verifySocketToken(token)]
          /\ out' = <<>>
  /\ UNCHANGED <<relay, admitted, now, agents, commands, requests, nextAgent, nextCommand>>

\* verifyAgentToken after the format check: the format failure is returned, or the
\* store answered the lookup (storeError: with an error, with an exception or
\* from the table); with an active row the last_used_at update is sent and awaited
\* (auth.ts lines 110-113).  A rejected verifyAgentToken would end the async
\* connection callback at its await: the socket stays connected without handlers.
VerifyDone(s, storeError) ==
  /\ sock[s].phase = "verifying"
  /\ LET verification == verifyAgentToken(sock[s].token, storeError)
     IN  IF verification.threw
         THEN /\ sock' = [sock EXCEPT ![s].phase = "abandoned"]
              /\ out' = <<>>
         ELSE IF ~verification.valid
         THEN /\ sock' = [sock EXCEPT ![s].phase = "closed"]
              /\ out' = <<EmitSock(s, "authentication_error",
                                   [code |-> "INVALID_AGENT_TOKEN", message |-> verification.error])>>
         ELSE /\ sock' = [sock EXCEPT ![s].phase = "updating"]
              /\ out' = <<EmitStore("update", verification.tokenId)>>
  /\ UNCHANGED <<relay, admitted, now, agents, commands, requests, nextAgent, nextCommand>>

\* the awaited last_used_at update settled: verifyAgentToken returns valid, or the
\* update threw and the catch block returns invalid (auth.ts lines 115-134); then
\* io.on('connection') goes on after its await and attaches the handlers only
\* when the token validated
UpdateDone(s, threw) ==
  /\ sock[s].phase = "updating"
  /\ LET verification == IF threw THEN caught ELSE verifyAgentToken(sock[s].token, "none")
     IN  IF verification.threw
         THEN /\ sock' = [sock EXCEPT ![s].phase = "abandoned"]
              /\ out' = <<>>
         ELSE IF ~verification.valid
         THEN /\ sock' = [sock EXCEPT ![s].phase = "closed"]
              /\ out' = <<EmitSock(s, "authentication_error",
                                   [code |-> "INVALID_AGENT_TOKEN", message |-> verification.error])>>
         ELSE /\ sock' = [sock EXCEPT ![s].phase = "open",
                                      ![s].agentTokenVerified = TRUE,
                                      ![s].verifiedRestaurantCode = verification.restaurantCode]
              /\ out' = <<>>
  /\ UNCHANGED <<relay, admitted, now, agents, commands, requests, nextAgent, nextCommand>>

(* ------------------- connection (TypeScript source) ------------------- *)
\* io.on('connection') of src/src/socket/handlers.ts: no agent token gate
ConnectSrc(s, clientType, token) ==
  /\ sock[s].phase = "new"
  /\ sock' = [sock EXCEPT ![s].phase = "open", ![s].clientType = clientType,
                          ![s].token = token, ![s].authUser = verifySocketToken(token)]
  /\ out' = <<>>
  /\ UNCHANGED <<relay, admitted, now, agents, commands, requests, nextAgent, nextCommand>>

(* ------------------- register_agent (compiled build) ------------------ *)
\* codeMismatch without the comparison with the token-bound code
codeMismatch_unchecked(sd, code) == FALSE

\* line 195: the code of the request differs from the code bound to the token
codeMismatch(sd, code) == sd.agentTokenVerified /\ code # sd.verifiedRestaurantCode

\* line 210: the socket already holds an agent id
alreadyRegistered(sd) == sd.agentId # NoAgent

\* socket.on('register_agent')
RegisterAgent(s, code, printerInfo, cb) ==
  LET sd == sock[s]
      restaurantCode == Or(sd.verifiedRestaurantCode, code)
      agentId == nextAgent + 1
      restaurantId == restaurantCode
  IN
  /\ sd.phase = "open"
  /\ IF codeMismatch(sd, code)
     THEN /\ out' = <<EmitSock(s, "registration_error", [success |-> FALSE])>>
                    \o Callback(s, cb, [success |-> FALSE])
          /\ UNCHANGED <<sock, agents, nextAgent>>
     ELSE IF alreadyRegistered(sd)
     THEN /\ out' = <<EmitSock(s, "agent_registered",
                               [success |-> TRUE, agentId |-> sd.agentId,
                                restaurantId |-> sd.restaurantId, code |-> sd.code])>>
                    \o Callback(s, cb, [success |-> TRUE, agentId |-> sd.agentId,
                                        restaurantId |-> sd.restaurantId, code |-> sd.code])
          /\ UNCHANGED <<sock, agents, nextAgent>>
     ELSE /\ nextAgent < MaxAgents
          /\ nextAgent' = agentId
          /\ agents' = register(agents, agentId, s, restaurantId, Null, restaurantCode,
                                Or(printerInfo, Null), now)
          /\ sock' = [sock EXCEPT ![s].agentId = agentId, ![s].role = "agent",
                                  ![s].restaurantId = restaurantId,
                                  ![s].code = restaurantCode,
                                  ![s].rooms = @ \cup {restaurantId}]
          /\ out' = <<EmitSock(s, "agent_registered",
                               [success |-> TRUE, agentId |-> agentId,
                                restaurantId |-> restaurantId, code |-> restaurantCode]),
                      EmitRoom(restaurantId, "agents-updated",
                               getAgentsByRestaurant(agents', restaurantId)),
                      EmitAll("connected-agents",
                              getAgentsByRestaurant(agents', restaurantId))>>
                    \o Callback(s, cb, [success |-> TRUE, agentId |-> agentId,
                                        restaurantId |-> restaurantId, code |-> restaurantCode])
  /\ UNCHANGED <<relay, admitted, now, commands, requests, nextCommand>>

(* ------------------- register_agent (TypeScript source) --------------- *)
\* socket.on('register_agent') of src/src/socket/handlers.ts: always registers
RegisterAgentSrc(s, code, printerInfo, cb) ==
  LET agentId == nextAgent + 1
      restaurantId == code
  IN
  /\ sock[s].phase = "open"
  /\ nextAgent < MaxAgents
  /\ nextAgent' = agentId
  /\ agents' = registerSrc(agents, agentId, s, restaurantId, Null, code,
                           Or(printerInfo, Null), now)
  /\ sock' = [sock EXCEPT ![s].agentId = agentId, ![s].role = "agent",
                          ![s].restaurantId = restaurantId, ![s].code = code,
                          ![s].rooms = @ \cup {restaurantId}]
  /\ out' = <<EmitSock(s, "agent_registered",
                       [success |-> TRUE, agentId |-> agentId,
                        restaurantId |-> restaurantId, code |-> code]),
              EmitRoom(restaurantId, "agents-updated",
                       getAgentsByRestaurant(agents', restaurantId))>>
            \o Callback(s, cb, [success |-> TRUE, agentId |-> agentId,
                                restaurantId |-> restaurantId, code |-> code])
  /\ UNCHANGED <<relay, admitted, now, commands, requests, nextCommand>>

(* ------------------- register ----------------------------------------- *)
\* socket.on('register'), role agent: registers without looking at socket.data
RegisterAsAgent(s, restaurantId, printerInfo, cb) ==
  LET agentId == nextAgent + 1
      code == Or(restaurantId, "unknown")
  IN
  /\ sock[s].phase = "open"
  /\ nextAgent < MaxAgents
  /\ nextAgent' = agentId
  /\ agents' = register(agents, agentId, s, Or(restaurantId, Null),
                        Or(sock[s].authUser, Null), code, Or(printerInfo, Null), now)
  /\ sock' = [sock EXCEPT ![s].agentId = agentId, ![s].role = "agent",
                          ![s].restaurantId = restaurantId,
                          ![s].rooms = IF Truthy(restaurantId) THEN @ \cup {restaurantId} ELSE @]
  /\ out' = <<EmitAll("agents-updated", getAllAgents(agents'))>>
            \o Callback(s, cb, [success |-> TRUE, agentId |-> agentId])
  /\ UNCHANGED <<relay, admitted, now, commands, requests, nextCommand>>

\* socket.on('register'), role agent, of src/src/socket/handlers.ts: the same text,
\* calling the AgentManager of the TypeScript source
RegisterAsAgentSrc(s, restaurantId, printerInfo, cb) ==
  LET agentId == nextAgent + 1
      code == Or(restaurantId, "unknown")
  IN
  /\ sock[s].phase = "open"
  /\ nextAgent < MaxAgents
  /\ nextAgent' = agentId
  /\ agents' = registerSrc(agents, agentId, s, Or(restaurantId, Null),
                           Or(sock[s].authUser, Null), code, Or(printerInfo, Null), now)
  /\ sock' = [sock EXCEPT ![s].agentId = agentId, ![s].role = "agent",
                          ![s].restaurantId = restaurantId,
                          ![s].rooms = IF Truthy(restaurantId) THEN @ \cup {restaurantId} ELSE @]
  /\ out' = <<EmitAll("agents-updated", getAllAgents(agents'))>>
            \o Callback(s, cb, [success |-> TRUE, agentId |-> agentId])
  /\ UNCHANGED <<relay, admitted, now, commands, requests, nextCommand>>

\* socket.on('register'), any other role: a dashboard client
RegisterAsClient(s, role, restaurantId, cb) ==
  LET \* authPayload?.restaurantId: the session tokens used here carry none
      rid == Or(restaurantId, Undef)
  IN
  /\ sock[s].phase = "open"
  /\ role # "agent"
  /\ sock' = [sock EXCEPT ![s].role = Or(role, "web-client"),
                          ![s].userId = IF sock[s].authUser = Null THEN Undef ELSE sock[s].authUser,
                          ![s].restaurantId = rid,
                          ![s].rooms = IF Truthy(rid) THEN @ \cup {rid} ELSE @]
  /\ out' = <<EmitSock(s, "agents-updated",
                       IF Truthy(rid) THEN getAgentsByRestaurant(agents, rid)
                       ELSE getAllAgents(agents))>>
            \o Callback(s, cb, [success |-> TRUE])
  /\ UNCHANGED <<relay, admitted, now, agents, commands, requests, nextAgent, nextCommand>>

(* ------------------- print-label (submit-job) ------------------------- *)
\* resolveTarget without the preference for a ready printer (line 401 as agents[0])
resolveTarget_firstInRoom(ags, targetAgentId, restaurantId) ==
  IF targetAgentId # NoAgent
  THEN getAgent(ags, targetAgentId)
  ELSE LET roomAgents == getAgentsByRestaurant(ags, restaurantId)
       IN  IF roomAgents # <<>> THEN <<roomAgents[1]>> ELSE <<>>

\* resolveTarget that falls back to the room when the explicit target is unknown
resolveTarget_fallback(ags, targetAgentId, restaurantId) ==
  IF targetAgentId # NoAgent /\ getAgent(ags, targetAgentId) # <<>>
  THEN getAgent(ags, targetAgentId)
  ELSE resolveTarget_firstInRoom(ags, NoAgent, restaurantId)

\* lines 386-411: the target agent, <<>> when none is found
resolveTarget(ags, targetAgentId, restaurantId) ==
  IF targetAgentId # NoAgent
  THEN getAgent(ags, targetAgentId)
  ELSE LET roomAgents == getAgentsByRestaurant(ags, restaurantId)
           r == FirstIndex(roomAgents, LAMBDA a : a.printerInfo = "ready")
       IN  IF r # 0 THEN <<roomAgents[r]>>
           ELSE IF roomAgents # <<>> THEN <<roomAgents[1]>> ELSE <<>>

\* lines 413-421: createCommand, emit, updateStatus(commandId, 'printing')
dispatch(cmds, commandId, restaurantId, userId, agentId, t) ==
  updateStatus(createCommand(cmds, commandId, restaurantId, userId, agentId, t),
               commandId, "printing", Undef, t)

\* socket.on('print-label')
PrintLabel(s, targetAgentId, dataRestaurantId, cb) ==
  LET sd == sock[s]
      restaurantId == Or(dataRestaurantId, sd.restaurantId)
      target == resolveTarget(agents, targetAgentId, restaurantId)
      commandId == nextCommand + 1
      userId == Or(sd.userId, Or(sd.authUser, "unknown"))
      Fail(why) ==
        /\ out' = Callback(s, cb, [success |-> FALSE, error |-> why])
        /\ UNCHANGED <<commands, nextCommand>>
  IN
  /\ sd.phase = "open"
  /\ requests' = checkRequests(requests, s, now)
  /\ IF ~check(requests, s, now) THEN Fail("Rate limit exceeded. Please slow down.")
     ELSE IF ~Truthy(restaurantId) THEN Fail("Restaurant ID is required")
     ELSE IF target = <<>>
     THEN IF targetAgentId # NoAgent
          THEN Fail("Target agent not found or offline")
          ELSE Fail("No online agents found for this restaurant")
     ELSE /\ nextCommand < MaxCommands
          /\ nextCommand' = commandId
          /\ commands' = dispatch(commands, commandId, restaurantId, userId, target[1].id, now)
          /\ out' = <<EmitSock(target[1].socketId, "print-command", [commandId |-> commandId])>>
                    \o Callback(s, cb, [success |-> TRUE, commandId |-> commandId])
  /\ UNCHANGED <<relay, admitted, now, sock, agents, nextAgent>>

(* ------------------- print_command (legacy alias) -------------------- *)
\* socket.on('print_command'): the job is broadcast to the room named by data.code
\* under the id `job-${Date.now()}`; neither the rate limiter nor the ledger nor
\* the registry is consulted
PrintCommand(s, code) ==
  /\ sock[s].phase = "open"
  /\ out' = <<EmitRoom(code, "print_job", [jobId |-> <<"job", now>>]),
              EmitSock(s, "print_sent", [success |-> TRUE, code |-> code])>>
  /\ UNCHANGED <<relay, admitted, now, sock, agents, commands, requests, nextAgent, nextCommand>>

(* ------------------- print-result (report-result) --------------------- *)
\* reportStatus that records every report as a success
reportStatus_alwaysSuccess(cmds, commandId, success, error, t) ==
  updateStatus(cmds, commandId, "success", Undef, t)

\* lines 456-461: the ledger after the report
reportStatus(cmds, commandId, success, error, t) ==
  IF success THEN updateStatus(cmds, commandId, "success", Undef, t)
  ELSE updateStatus(cmds, commandId, "failed", error, t)

\* socket.on('print-result')
PrintResult(s, commandId, success, error) ==
  /\ sock[s].phase = "open"
  /\ commands' = reportStatus(commands, commandId, success, error, now)
  /\ LET command == getCommand(commands', commandId)
     IN  out' = IF command # <<>>
                THEN <<EmitRoom(command[1].restaurantId, "print-completed",
                                [commandId |-> commandId, success |-> success, error |-> error])>>
                ELSE <<>>
  /\ UNCHANGED <<relay, admitted, now, sock, agents, requests, nextAgent, nextCommand>>

(* ------------------- agent-status, heartbeat, agent_heartbeat --------- *)
\* socket.on('agent-status')
AgentStatus(s, printerInfo) ==
  /\ sock[s].phase = "open"
  /\ IF sock[s].agentId # NoAgent
     THEN /\ agents' = updatePrinterInfo(agents, sock[s].agentId, printerInfo, now)
          /\ out' = <<EmitAll("agents-updated", getAllAgents(agents'))>>
     ELSE /\ out' = <<>>
          /\ UNCHANGED agents
  /\ UNCHANGED <<relay, admitted, now, sock, commands, requests, nextAgent, nextCommand>>

\* socket.on('heartbeat')
Heartbeat(s) ==
  /\ sock[s].phase = "open"
  /\ agents' = IF sock[s].agentId # NoAgent
               THEN updateLastSeen(agents, sock[s].agentId, now) ELSE agents
  /\ out' = <<EmitSock(s, "heartbeat-ack", <<>>)>>
  /\ UNCHANGED <<relay, admitted, now, sock, commands, requests, nextAgent, nextCommand>>

\* socket.on('agent_heartbeat')
AgentHeartbeat(s) ==
  /\ sock[s].phase = "open"
  /\ agents' = IF sock[s].agentId # NoAgent
               THEN updateLastSeen(agents, sock[s].agentId, now) ELSE agents
  /\ out' = <<>>
  /\ UNCHANGED <<relay, admitted, now, sock, commands, requests, nextAgent, nextCommand>>

(* ------------------- get-agents, get_connected_agents, get_agents_in_room *)
\* socket.on('get-agents') that always answers with the global roster
GetAgents_global(s, cb) ==
  /\ sock[s].phase = "open"
  /\ out' = IF cb THEN Callback(s, cb, [agents |-> getAllAgents(agents)])
            ELSE <<EmitSock(s, "agents-updated", getAllAgents(agents))>>
  /\ UNCHANGED <<relay, admitted, now, sock, agents, commands, requests, nextAgent, nextCommand>>

\* socket.on('get-agents'): the roster of the connection's room, or the global
\* roster when the connection has no room; to the callback if one is passed,
\* else as an agents-updated event to the sender
GetAgents(s, cb) ==
  LET roster == IF Truthy(sock[s].restaurantId)
                THEN getAgentsByRestaurant(agents, sock[s].restaurantId)
                ELSE getAllAgents(agents)
  IN
  /\ sock[s].phase = "open"
  /\ out' = IF cb THEN Callback(s, cb, [agents |-> roster])
            ELSE <<EmitSock(s, "agents-updated", roster)>>
  /\ UNCHANGED <<relay, admitted, now, sock, agents, commands, requests, nextAgent, nextCommand>>

\* socket.on('get_connected_agents'): the global roster as a connected-agents
\* event to the sender, and to the callback if one is passed
GetConnectedAgents(s, cb) ==
  LET allAgents == getAllAgents(agents)
  IN
  /\ sock[s].phase = "open"
  /\ out' = <<EmitSock(s, "connected-agents", allAgents)>>
            \o Callback(s, cb, [agents |-> allAgents])
  /\ UNCHANGED <<relay, admitted, now, sock, agents, commands, requests, nextAgent, nextCommand>>

\* socket.on('get_agents_in_room'): the roster of room roomCode as a room-agents
\* event to the sender, and to the callback if one is passed
GetAgentsInRoom(s, roomCode, cb) ==
  LET roster == getAgentsByRestaurant(agents, roomCode)
  IN
  /\ sock[s].phase = "open"
  /\ out' = <<EmitSock(s, "room-agents", roster)>> \o Callback(s, cb, [agents |-> roster])
  /\ UNCHANGED <<relay, admitted, now, sock, agents, commands, requests, nextAgent, nextCommand>>

(* ------------------- join_room ---------------------------------------- *)
\* socket.on('join_room') that also marks the connection as an agent of the room
JoinRoom_asAgent(s, roomCode) ==
  /\ sock[s].phase = "open"
  /\ sock' = [sock EXCEPT ![s].rooms = @ \cup {roomCode}, ![s].restaurantId = roomCode,
                          ![s].role = "agent"]
  /\ out' = <<>>
  /\ UNCHANGED <<relay, admitted, now, agents, commands, requests, nextAgent, nextCommand>>

\* socket.on('join_room')
JoinRoom(s, roomCode) ==
  /\ sock[s].phase = "open"
  /\ sock' = [sock EXCEPT ![s].rooms = @ \cup {roomCode}, ![s].restaurantId = roomCode]
  /\ out' = <<>>
  /\ UNCHANGED <<relay, admitted, now, agents, commands, requests, nextAgent, nextCommand>>

(* ------------------- disconnect --------------------------------------- *)
\* a disconnect that also fails the jobs still printing on the agent that left
Disconnect_failsJobs(s) ==
  /\ sock[s].phase = "open"
  /\ requests' = remove(requests, s)
  /\ IF sock[s].role = "agent" /\ Truthy(sock[s].restaurantId)
     THEN /\ agents' = unregisterBySocketId(agents, s)
          /\ out' = <<EmitRoom(sock[s].restaurantId, "agents-updated",
                               getAgentsByRestaurant(agents', sock[s].restaurantId))>>
     ELSE /\ out' = <<>>
          /\ UNCHANGED agents
  /\ commands' = [i \in DOMAIN commands |->
                    IF commands[i].status = "printing" /\ commands[i].agentId = sock[s].agentId
                    THEN [commands[i] EXCEPT !.status = "failed", !.completedAt = now]
                    ELSE commands[i]]
  /\ sock' = [sock EXCEPT ![s].phase = "closed", ![s].rooms = {}]
  /\ UNCHANGED <<relay, admitted, now, nextAgent, nextCommand>>

\* socket.on('disconnect'); the socket leaves its rooms
Disconnect(s) ==
  /\ sock[s].phase = "open"
  /\ requests' = remove(requests, s)
  /\ IF sock[s].role = "agent" /\ Truthy(sock[s].restaurantId)
     THEN /\ agents' = unregisterBySocketId(agents, s)
          /\ out' = <<EmitRoom(sock[s].restaurantId, "agents-updated",
                               getAgentsByRestaurant(agents', sock[s].restaurantId))>>
     ELSE /\ out' = <<>>
          /\ UNCHANGED agents
  /\ sock' = [sock EXCEPT ![s].phase = "closed", ![s].rooms = {}]
  /\ UNCHANGED <<relay, admitted, now, commands, nextAgent, nextCommand>>

(* ------------------- periodic sweep and the clock --------------------- *)
\* setInterval(() => agentManager.cleanup(), 60000)
Sweep ==
  /\ agents' = AgentManager_cleanup(agents, now)
  /\ out' = <<>>
  /\ UNCHANGED <<relay, admitted, now, sock, commands, requests, nextAgent, nextCommand>>

\* setInterval(() => this.cleanup(), 300000) of the rate limiter
LimiterSweep ==
  /\ requests' = SocketRateLimiter_cleanup(requests, now)
  /\ out' = <<>>
  /\ UNCHANGED <<relay, admitted, now, sock, agents, commands, nextAgent, nextCommand>>

\* Date.now() advances
Tick ==
  /\ now < MaxTime
  /\ now' = now + 1
  /\ out' = <<>>
  /\ UNCHANGED <<relay, admitted, sock, agents, commands, requests, nextAgent, nextCommand>>

(* ------------------- the limiter called on its own --------------------- *)
\* socketRateLimiter.check(key) at the clock's time; the call is admitted or denied
Check(key) ==
  /\ requests' = checkRequests(requests, key, now)
  /\ admitted' = IF check(requests, key, now)
                 THEN [admitted EXCEPT !.check[key] = Append(@, now)]
                 ELSE admitted
  /\ out' = <<>>
  /\ UNCHANGED <<relay, now, sock, agents, commands, nextAgent, nextCommand>>

\* the clock of the limiter specification
CallTick ==
  /\ now < MaxCallTime
  /\ now' = now + 1
  /\ out' = <<>>
  /\ UNCHANGED <<relay, admitted, sock, agents, commands, requests, nextAgent, nextCommand>>

(* ------------------- the pairing-code relay build ---------------------- *)
\* rateLimitMiddleware: the connections of the address within the window
recentConnections(limits, ip, t) ==
  SelectSeq(limits[ip], LAMBDA time : t - time < connectionWindowMs)

\* rateLimitMiddleware that pushes the time of a refused connection as well
rateLimitMiddleware_recordsDenied(limits, ip, t) ==
  [next |-> ~(Len(recentConnections(limits, ip, t)) >= maxConnections),
   limits |-> [limits EXCEPT ![ip] = Append(recentConnections(limits, ip, t), t)]]

\* rateLimitMiddleware: whether next() is called without an error, and the
\* connectionLimits Map after the call (a refused connection stores nothing)
rateLimitMiddleware(limits, ip, t) ==
  IF Len(recentConnections(limits, ip, t)) >= maxConnections
  THEN [next |-> FALSE, limits |-> limits]
  ELSE [next |-> TRUE,
        limits |-> [limits EXCEPT ![ip] = Append(recentConnections(limits, ip, t), t)]]

\* handshake of a relay connection: query.clientType and auth.token
\*   "jwt_u1"                a Supabase JWT that verifies
\*   "jwt_bad"               a JWT that does not verify
\*   "agent_ABC123_key32"    an agent key of the form agent_<6>_<32>
\*   "agent_R1"              an agent key of another form
RelayHandshakes ==
  {<<"browser", "jwt_u1">>, <<"browser", "jwt_bad">>, <<"agent", "agent_ABC123_key32">>,
   <<"agent", "agent_R1">>, <<"agent", Undef>>, <<"unknown", "jwt_u1">>}

\* websocketAuth: whether next() is called without an error
websocketAuth(clientType, token) ==
  /\ Truthy(token)
  /\ \/ clientType = "browser" /\ token = "jwt_u1"
     \/ clientType = "agent" /\ token = "agent_ABC123_key32"

\* io.use(rateLimitMiddleware), io.use(websocketAuth), io.on('connection')
RelayConnect(s, clientType, token) ==
  /\ ~relay.open[s]
  /\ LET limited == rateLimitMiddleware(relay.connectionLimits, address(s), now)
         accepted == limited.next /\ websocketAuth(clientType, token)
     IN  /\ relay' = [relay EXCEPT !.connectionLimits = limited.limits, !.open[s] = accepted]
         /\ admitted' = IF limited.next
                        THEN [admitted EXCEPT !.connection[address(s)] = Append(@, now)]
                        ELSE admitted
         /\ out' = IF accepted THEN <<>>
                   ELSE <<EmitSock(s, "connect_error",
                                   IF limited.next THEN "authentication" ELSE "connection limit")>>
  /\ UNCHANGED <<now, sock, agents, commands, requests, nextAgent, nextCommand>>

\* !code || code.length !== 6
invalidCode(code) == ~Truthy(code) \/ codeLength(code) # 6

\* socket.on('register_agent') of the relay
RelayRegisterAgent(s, code) ==
  /\ relay.open[s]
  /\ IF invalidCode(code)
     THEN /\ out' = <<EmitSock(s, "error", "INVALID_CODE")>>
          /\ UNCHANGED relay
     ELSE LET connection == [relay.connections[code] EXCEPT !.present = TRUE, !.agent = s]
          IN  /\ relay' = [relay EXCEPT !.agents[s] = code, !.connections[code] = connection]
              /\ out' = <<EmitSock(s, "registered", code)>> \o
                        (IF connection.browser # NoSocket
                         THEN <<EmitSock(connection.browser, "agent_connected", code)>>
                         ELSE <<>>)
  /\ UNCHANGED <<admitted, now, sock, agents, commands, requests, nextAgent, nextCommand>>

\* socket.on('register_browser') of the relay
RelayRegisterBrowser(s, code) ==
  /\ relay.open[s]
  /\ IF invalidCode(code)
     THEN /\ out' = <<EmitSock(s, "error", "INVALID_CODE")>>
          /\ UNCHANGED relay
     ELSE LET connection == [relay.connections[code] EXCEPT !.present = TRUE, !.browser = s]
          IN  /\ relay' = [relay EXCEPT !.browsers[s] = code, !.connections[code] = connection]
              /\ out' = <<EmitSock(s, "registered", code),
                          EmitSock(s, IF connection.agent # NoSocket
                                      THEN "agent_connected" ELSE "agent_disconnected", code)>>
  /\ UNCHANGED <<admitted, now, sock, agents, commands, requests, nextAgent, nextCommand>>

\* socket.on('print_command') of the relay
RelayPrintCommand(s) ==
  /\ relay.open[s]
  /\ LET code == relay.browsers[s]
     IN  out' = IF code = Undef THEN <<EmitSock(s, "error", "NOT_REGISTERED")>>
                ELSE IF ~relay.connections[code].present
                        \/ relay.connections[code].agent = NoSocket
                     THEN <<EmitSock(s, "print_error", "AGENT_OFFLINE")>>
                     ELSE <<EmitSock(relay.connections[code].agent, "print_job", code),
                            EmitSock(s, "print_sent", code)>>
  /\ UNCHANGED <<relay, admitted, now, sock, agents, commands, requests, nextAgent, nextCommand>>

\* socket.on('print_result') of the relay
RelayPrintResult(s) ==
  /\ relay.open[s]
  /\ LET code == relay.agents[s]
     IN  out' = IF code # Undef /\ relay.connections[code].present
                   /\ relay.connections[code].browser # NoSocket
                THEN <<EmitSock(relay.connections[code].browser, "print_result", code)>>
                ELSE <<>>
  /\ UNCHANGED <<relay, admitted, now, sock, agents, commands, requests, nextAgent, nextCommand>>

\* socket.on('agent_heartbeat') of the relay (lastSeen and printerInfo are not modelled)
RelayAgentHeartbeat(s) ==
  /\ relay.open[s]
  /\ LET code == relay.agents[s]
     IN  out' = IF code # Undef /\ relay.connections[code].present
                   /\ relay.connections[code].browser # NoSocket
                THEN <<EmitSock(relay.connections[code].browser, "agent_status_update", code)>>
                ELSE <<>>
  /\ UNCHANGED <<relay, admitted, now, sock, agents, commands, requests, nextAgent, nextCommand>>

\* disconnect, the agent half: the connections Map after it
agentGone(conns, code) ==
  IF code = Undef \/ ~conns[code].present THEN conns
  ELSE IF conns[code].browser # NoSocket
       THEN [conns EXCEPT ![code].agent = NoSocket]
       ELSE [conns EXCEPT ![code] = NoEntry]

\* disconnect, the browser half: the connections Map after it
browserGone(conns, code) ==
  IF code = Undef \/ ~conns[code].present THEN conns
  ELSE IF conns[code].agent # NoSocket
       THEN [conns EXCEPT ![code].browser = NoSocket]
       ELSE [conns EXCEPT ![code] = NoEntry]

\* socket.on('disconnect') of the relay
RelayDisconnect(s) ==
  /\ relay.open[s]
  /\ LET agentCode == relay.agents[s]
         browserCode == relay.browsers[s]
     IN  /\ relay' = [relay EXCEPT
                        !.open[s] = FALSE,
                        !.agents[s] = Undef,
                        !.browsers[s] = Undef,
                        !.connections = browserGone(agentGone(@, agentCode), browserCode)]
         /\ out' = IF agentCode # Undef /\ relay.connections[agentCode].present
                      /\ relay.connections[agentCode].browser # NoSocket
                   THEN <<EmitSock(relay.connections[agentCode].browser,
                                   "agent_disconnected", agentCode)>>
                   ELSE <<>>
  /\ UNCHANGED <<admitted, now, sock, agents, commands, requests, nextAgent, nextCommand>>

(* ------------------- specifications ----------------------------------- *)
\* Socket 1 is the connection under study: it sends every event.  Socket 2 is
\* another connection of the same server: a print agent without a token that
\* registers under pairing code R1, heartbeats, reports results and disconnects.
Primary == {1}
Others == Sockets \ Primary

\* handshake.query.clientType and handshake.auth.token offered at connection
Handshakes(s) ==
  IF s \in Primary
  THEN {<<"agent", "agent_R1">>, <<"agent", "agent_revoked">>, <<"agent", "agent_unknown">>,
        <<"agent", "agent_r1">>, <<"agent", Undef>>}
  ELSE {<<"agent", Undef>>}

\* the pairing codes a socket sends with register_agent
Codes(s) == IF s \in Primary THEN Rooms ELSE {"R1"}

\* whether the client passes an acknowledgement callback
Callbacks(s) == IF s \in Primary THEN BOOLEAN ELSE {TRUE}

\* the registration, status and liveness events both builds handle alike
RegistryEvents ==
  \/ \E s \in Primary, r \in {"R1", Undef} : RegisterAsClient(s, "web-client", r, TRUE)
  \/ \E s \in Primary : AgentStatus(s, "busy")
  \/ \E s \in Sockets : Heartbeat(s)
  \/ \E s \in Primary : AgentHeartbeat(s)
  \/ \E s \in Primary, r \in Rooms : JoinRoom(s, r)
  \/ \E s \in Sockets : Disconnect(s)
  \/ Sweep
  \/ Tick

\* The connection protocol and the registry, compiled build.  The job handlers
\* (print-label, print-result) write neither sock nor agents, so every value of
\* <<sock, agents>> the server reaches is reached here.
Next ==
  \/ \E s \in Sockets : \E h \in Handshakes(s) : Connect(s, h[1], h[2])
  \/ \E s \in Sockets, storeError \in StoreErrors : VerifyDone(s, storeError)
  \/ \E s \in Sockets, threw \in BOOLEAN : UpdateDone(s, threw)
  \/ \E s \in Sockets : \E c \in Codes(s), cb \in Callbacks(s) : RegisterAgent(s, c, Undef, cb)
  \/ \E s \in Primary, r \in {"R1", Undef} : RegisterAsAgent(s, r, Undef, TRUE)
  \/ RegistryEvents

Spec == Init /\ [][Next]_vars

\* The connection protocol and the registry, handlers of the TypeScript source.
NextSrc ==
  \/ \E s \in Sockets : \E h \in Handshakes(s) : ConnectSrc(s, h[1], h[2])
  \/ \E s \in Sockets : \E c \in Codes(s), cb \in Callbacks(s) :
       RegisterAgentSrc(s, c, Undef, cb)
  \/ \E s \in Primary, r \in {"R1", Undef} : RegisterAsAgentSrc(s, r, Undef, TRUE)
  \/ RegistryEvents

SpecSrc == Init /\ [][NextSrc]_vars

\* The job flow (the handlers are the same text in both builds): socket 1 is a
\* dashboard client that joins room R1 and submits jobs to it, with and without
\* naming the agent (routing failures are the matter of SpecRoute), socket 2 a print agent
\* of room R1 (any open connection may submit, so the agent's connection submits
\* to its own room too); results are reported from either socket. The agent may
\* drop; the sweep and the submitter's disconnect belong to the registry
\* specifications above.
LedgerNext ==
  \/ \E s \in Primary : Connect(s, "web", Undef)
  \/ \E s \in Others : Connect(s, "agent", Undef)
  \/ \E s \in Others : RegisterAgent(s, "R1", "ready", TRUE)
  \/ \E s \in Primary : RegisterAsClient(s, "web-client", "R1", TRUE)
  \/ \E s \in Primary, a \in {NoAgent, 1} : PrintLabel(s, a, Undef, TRUE)
  \/ \E s \in Others : PrintLabel(s, NoAgent, Undef, TRUE)
  \/ \E s \in Sockets, c \in 1..MaxCommands, ok \in BOOLEAN :
       PrintResult(s, c, ok, IF ok THEN Undef ELSE "jam")
  \/ \E s \in Others : Disconnect(s)
  \/ Tick

SpecLedger == Init /\ [][LedgerNext]_vars

\* Routing and admission of submitted jobs: both sockets are print agents and may
\* drop; socket 1 registers under either room with a busy printer, socket 2 under
\* room R1 with a ready or a busy printer; socket 1 also submits jobs, before and after it registered, with and without
\* an explicit target and room key, faster than its rate limit allows.
RouteNext ==
  \/ \E s \in Sockets : Connect(s, "agent", Undef)
  \/ \E s \in Primary, c \in Rooms : RegisterAgent(s, c, "busy", TRUE)
  \/ \E s \in Others, pi \in {"ready", "busy"} : RegisterAgent(s, "R1", pi, TRUE)
  \/ \E s \in Primary, a \in 0..MaxAgents, r \in Rooms \cup {Undef} : PrintLabel(s, a, r, TRUE)
  \/ \E s \in Primary : PrintCommand(s, "R1")
  \/ \E s \in Sockets : Disconnect(s)
  \/ Tick

SpecRoute == Init /\ [][RouteNext]_vars

\* The rate limiter: socket 2 is a print agent of room R1, socket 1 a client that
\* submits jobs with and without a room key; both submit faster than the limit
\* allows, the limiter is compacted, connections drop.
LimiterNext ==
  \/ \E s \in Primary : Connect(s, "web", Undef)
  \/ \E s \in Others : Connect(s, "agent", Undef)
  \/ \E s \in Others : RegisterAgent(s, "R1", "ready", TRUE)
  \/ \E s \in Primary, r \in {"R1", Undef} : PrintLabel(s, NoAgent, r, TRUE)
  \/ \E s \in Others : PrintLabel(s, NoAgent, "R2", TRUE)
  \/ LimiterSweep
  \/ \E s \in Sockets : Disconnect(s)
  \/ Tick

SpecLimiter == Init /\ [][LimiterNext]_vars

\* Jobs whose agent goes away: socket 1 is a dashboard client of room R1 that
\* submits jobs, socket 2 the print agent of the room, which disconnects or is
\* swept as stale while jobs are printing; results are reported late or never.
OrphanNext ==
  \/ \E s \in Primary : Connect(s, "web", Undef)
  \/ \E s \in Others : Connect(s, "agent", Undef)
  \/ \E s \in Others : RegisterAgent(s, "R1", "ready", TRUE)
  \/ \E s \in Primary : RegisterAsClient(s, "web-client", "R1", TRUE)
  \/ \E s \in Primary : PrintLabel(s, NoAgent, Undef, TRUE)
  \/ \E s \in Sockets, c \in 1..MaxCommands : PrintResult(s, c, TRUE, Undef)
  \/ \E s \in Sockets : Disconnect(s)
  \/ Sweep
  \/ LimiterSweep
  \/ Tick

SpecOrphan == Init /\ [][OrphanNext]_vars

\* Liveness of the registry: agents connect without a token, register under
\* pairing code R1 and then heartbeat, report their status or fall silent; no
\* connection ever closes.  setInterval runs the sweep every minute for as long
\* as the process lives, and the clock advances up to the bound: both are
\* weakly fair.
SweepNext ==
  \/ \E s \in Sockets : Connect(s, "agent", Undef)
  \/ \E s \in Sockets : RegisterAgent(s, "R1", "ready", TRUE)
  \/ \E s \in Sockets : Heartbeat(s)
  \/ \E s \in Sockets : AgentHeartbeat(s)
  \/ \E s \in Sockets, pi \in {"ready", "busy"} : AgentStatus(s, pi)
  \/ Sweep
  \/ Tick

SpecSweepFair == Init /\ [][SweepNext]_vars /\ WF_vars(Sweep) /\ WF_vars(Tick)

\* Agents at work: both connections are print agents without a token that
\* register under pairing code R1, submit and report jobs, heartbeat with either
\* event, report their device status, then leave or are swept.
StatusNext ==
  \/ \E s \in Sockets : Connect(s, "agent", Undef)
  \/ \E s \in Sockets : RegisterAgent(s, "R1", "ready", TRUE)
  \/ \E s \in Primary : PrintLabel(s, NoAgent, Undef, TRUE)
  \/ \E s \in Others, c \in 1..MaxCommands : PrintResult(s, c, TRUE, Undef)
  \/ \E s \in Sockets : Heartbeat(s)
  \/ \E s \in Sockets : AgentHeartbeat(s)
  \/ \E s \in Sockets : AgentStatus(s, "busy")
  \/ \E s \in Others : Disconnect(s)
  \/ Sweep
  \/ Tick

SpecStatus == Init /\ [][StatusNext]_vars

\* Roster queries and room joins: both connections are token-less agents; socket
\* 1 registers under either pairing code, socket 2 under R1, so the rooms differ
\* or coincide.  Either connection asks for the roster with each of the three
\* events, before or after it registers, socket 1 also joins rooms and submits
\* jobs, which fills the ledger and the limiter.
RosterNext ==
  \/ \E s \in Sockets : Connect(s, "agent", Undef)
  \/ \E s \in Sockets : \E c \in Codes(s) : RegisterAgent(s, c, "ready", TRUE)
  \/ \E s \in Primary : PrintLabel(s, NoAgent, Undef, TRUE)
  \/ \E s \in Sockets, cb \in BOOLEAN : GetAgents(s, cb)
  \/ \E s \in Sockets, cb \in BOOLEAN : GetConnectedAgents(s, cb)
  \/ \E s \in Sockets, r \in Rooms, cb \in BOOLEAN : GetAgentsInRoom(s, r, cb)
  \/ \E s \in Primary, r \in Rooms : JoinRoom(s, r)
  \/ \E s \in Others : Disconnect(s)
  \/ Tick

SpecRoster == Init /\ [][RosterNext]_vars

\* The gate under load: socket 1 is an agent that presents a token, socket 2 an
\* agent without one.  While the validation of socket 1 waits for the store,
\* both connections send register_agent, register, print-label and print-result;
\* a handler runs only on a connection whose handlers are attached.
GateNext ==
  \/ \E s \in Sockets : \E h \in Handshakes(s) : Connect(s, h[1], h[2])
  \/ \E s \in Sockets, storeError \in StoreErrors : VerifyDone(s, storeError)
  \/ \E s \in Sockets, threw \in BOOLEAN : UpdateDone(s, threw)
  \/ \E s \in Sockets : RegisterAgent(s, "R1", "ready", TRUE)
  \/ \E s \in Sockets : RegisterAsAgent(s, "R1", "ready", TRUE)
  \/ \E s \in Sockets : PrintLabel(s, NoAgent, "R1", TRUE)
  \/ \E s \in Sockets, c \in 1..MaxCommands : PrintResult(s, c, TRUE, Undef)
  \/ \E s \in Others : Disconnect(s)

SpecGate == Init /\ [][GateNext]_vars

\* Dashboard connections: socket 1 declares itself a web client and connects
\* with a valid session token, with one that fails jwt.verify (invalid or
\* expired) or with none; it registers, joins rooms and submits jobs to the
\* agent on socket 2.
DashNext ==
  \/ \E s \in Primary, token \in {Undef, "jwt_u1", "jwt_bad"} : Connect(s, "web", token)
  \/ \E s \in Others : Connect(s, "agent", Undef)
  \/ \E s \in Others : RegisterAgent(s, "R1", "ready", TRUE)
  \/ \E s \in Primary, r \in {"R1", Undef} : RegisterAsClient(s, "web-client", r, TRUE)
  \/ \E s \in Primary, r \in Rooms : JoinRoom(s, r)
  \/ \E s \in Primary : PrintLabel(s, NoAgent, Undef, TRUE)
  \/ \E s \in Sockets : Disconnect(s)
  \/ Tick

SpecDash == Init /\ [][DashNext]_vars

\* the sockets that act as print agents, and the one that acts as a browser
RelayAgents == {1, 2}
RelayBrowsers == RelaySockets \ RelayAgents

\* The two limiters over a clock long enough for whole windows to pass: a key of
\* the socket limiter is checked, two sockets of one address connect and disconnect.
WindowNext ==
  \/ \E key \in Primary : Check(key)
  \/ LimiterSweep
  \/ \E s \in RelayAgents : \E h \in RelayHandshakes : RelayConnect(s, h[1], h[2])
  \/ \E s \in RelayAgents : RelayDisconnect(s)
  \/ CallTick

SpecWindow == Init /\ [][WindowNext]_vars

\* The pairing-code relay: agents and browsers connect, register under a pairing
\* code, exchange jobs and results, and disconnect.
RelayNext ==
  \/ \E s \in RelaySockets : \E h \in RelayHandshakes : RelayConnect(s, h[1], h[2])
  \/ \E s \in RelayAgents, code \in {"123456", "12"} : RelayRegisterAgent(s, code)
  \/ \E s \in RelayBrowsers, code \in RelayCodeInputs : RelayRegisterBrowser(s, code)
  \/ \E s \in RelaySockets : RelayPrintCommand(s)
  \/ \E s \in RelayAgents : RelayPrintResult(s)
  \/ \E s \in RelayAgents : RelayAgentHeartbeat(s)
  \/ \E s \in RelaySockets : RelayDisconnect(s)

SpecRelay == Init /\ [][RelayNext]_vars

(* ======================= claims: registration ========================= *)
\* the events of a step that were sent to socket s alone
SentTo(evs, s, ev) == {i \in DOMAIN evs : evs[i].ev = ev /\ evs[i].toSock = s}

\* a step in which socket s, already holding an agent id, sends register_agent
\* to the compiled handler
ReRegister(s, c, cb) == sock[s].agentId # NoAgent /\ RegisterAgent(s, c, Undef, cb)

\* the same step for the handler of the TypeScript source
ReRegisterSrc(s, c, cb) == sock[s].agentId # NoAgent /\ RegisterAgentSrc(s, c, Undef, cb)

\* C1: a register_agent event received on a connection that already holds an
\* agent identity adds no record to the registry: the registry is the same
\* before and after the event.  (Stated for the handler of
\* src/src/socket/handlers.ts.)
C1_ReRegisterAddsNoRecord ==
  [][\A s \in Sockets, c \in Rooms, cb \in BOOLEAN :
       ReRegisterSrc(s, c, cb) => agents' = agents]_vars

\* C1, the compiled handler: the same statement holds there (guard at line 210,
\* mismatch return at line 207).
C1_CompiledBuild ==
  [][\A s \in Sockets, c \in Rooms, cb \in BOOLEAN :
       ReRegister(s, c, cb) => agents' = agents]_vars

\* C2: a register_agent re-issued on a connection that already holds an agent
\* identity is answered with agent_registered carrying the connection's
\* original agent id, room and pairing code (those of its registry record),
\* never with an error and never with an undefined value.
C2_ReRegisterReturnsOriginal ==
  [][\A s \in Sockets, c \in Rooms, cb \in BOOLEAN :
       ReRegister(s, c, cb) =>
         /\ SentTo(out', s, "registration_error") = {}
         /\ \E i \in SentTo(out', s, "agent_registered") :
              /\ out'[i].p.agentId = sock[s].agentId
              /\ out'[i].p.restaurantId # Undef
              /\ out'[i].p.code # Undef
              /\ \A a \in Range(agents) :
                   a.id = sock[s].agentId =>
                     /\ out'[i].p.restaurantId = a.restaurantId
                     /\ out'[i].p.code = a.code]_vars

\* C3: in every reachable state the registry holds at most one record per
\* identity id and at most one record per connection-channel (socket) id.
C3_OneRecordPerIdAndChannel ==
  \A i, j \in DOMAIN agents :
    i # j => agents[i].id # agents[j].id /\ agents[i].socketId # agents[j].socketId

\* the pairing token of the handshake validates (store answering)
TokenValidates(token) == verifyAgentToken(token, "none").valid

\* C4: a connection that declares itself an agent and whose pairing token does
\* not validate (missing, malformed, unknown or inactive) is closed once its
\* connection handler has run, holds no agent identity and has no record in
\* the registry.
C4_UnvalidatedAgentRejected ==
  \A s \in Sockets :
    (sock[s].clientType = "agent" /\ ~TokenValidates(sock[s].token)
       /\ sock[s].phase \notin {"new", "verifying"})
    => /\ sock[s].phase = "closed"
       /\ sock[s].agentId = NoAgent
       /\ \A a \in Range(agents) : a.socketId # s

\* a step in which a token-verified socket sends register_agent with a code
\* other than the one bound to its token
MismatchedRegister(s, c, cb) ==
  /\ sock[s].agentTokenVerified
  /\ c # sock[s].verifiedRestaurantCode
  /\ RegisterAgent(s, c, Undef, cb)

\* C5: on a pairing-token-verified connection, a register_agent whose code
\* differs from the token-bound code is answered with registration_error and
\* leaves the registry and the connection's identity, role, room state and
\* room membership unchanged.
C5_MismatchRejected ==
  [][\A s \in Sockets, c \in Rooms, cb \in BOOLEAN :
       MismatchedRegister(s, c, cb) =>
         /\ SentTo(out', s, "registration_error") # {}
         /\ SentTo(out', s, "agent_registered") = {}
         /\ agents' = agents
         /\ sock' = sock]_vars

\* C5 witness: a token-verified, already registered socket has just been
\* answered with registration_error
C5_Witness ==
  \E s \in Sockets :
    /\ sock[s].agentTokenVerified
    /\ sock[s].agentId # NoAgent
    /\ SentTo(out, s, "registration_error") # {}

(* ======================= claims: job ledger =========================== *)
\* the status moves the ledger allows: none, pending -> printing,
\* printing -> success | failed
StatusMove(a, b) ==
  \/ a = b
  \/ a = "pending" /\ b = "printing"
  \/ a = "printing" /\ b \in {"success", "failed"}

\* C6: for every job record and every sequence of submit and report events, the
\* status only moves pending -> printing -> success | failed: a record in
\* success or failed never changes status again and none moves backwards.
C6_StatusMonotonic ==
  [][\A i \in DOMAIN commands, j \in DOMAIN commands' :
       commands[i].id = commands'[j].id
         => StatusMove(commands[i].status, commands'[j].status)]_vars

\* C7: in every reachable ledger state a record has a completed time if and
\* only if its status is success or failed, and that time is not earlier than
\* its created time.
C7_CompletedIffTerminal ==
  \A i \in DOMAIN commands :
    /\ (commands[i].completedAt # NoTime) <=> (commands[i].status \in {"success", "failed"})
    /\ commands[i].completedAt # NoTime => commands[i].completedAt >= commands[i].createdAt

\* C7 witness: the ledger holds a finished record completed after the tick it
\* was created in, next to a record still printing
C7_Witness ==
  \E i, j \in DOMAIN commands :
    /\ commands[i].status = "failed"
    /\ commands[i].completedAt > commands[i].createdAt
    /\ commands[j].status = "printing"
    /\ commands[j].completedAt = NoTime

\* ids of the records of a ledger
Ids(cmds) == {cmds[i].id : i \in DOMAIN cmds}

\* the n most recently created of a set of command ids (uuids are handed out in
\* creation order)
MostRecent(ids, n) == {k \in ids : Cardinality({m \in ids : m > k}) < n}

\* C8: after a create the ledger never holds more than maxHistorySize records,
\* and when compaction dropped records the retained set is exactly the
\* maxHistorySize most recently created records, so the record just created
\* is retained.
C8_CapKeepsMostRecent ==
  [][nextCommand' # nextCommand =>
       /\ Len(commands') <= maxHistorySize
       /\ Len(commands) + 1 > maxHistorySize =>
            Ids(commands') = MostRecent(Ids(commands) \cup {nextCommand'}, maxHistorySize)]_vars

\* C8, first half alone: the ledger never holds more than maxHistorySize records
C8_SizeWithinCap == Len(commands) <= maxHistorySize

\* C9: for every ledger state, also one holding maxHistorySize records,
\* createCommand with a fresh id followed by getCommand returns the record with
\* status pending, and after updateStatus(id, success) getCommand returns
\* status success with completedAt set and not earlier than createdAt.
C9_CreateGetUpdate ==
  \A t \in now..MaxTime :
    LET id == nextCommand + 1
        created == createCommand(commands, id, "R1", "unknown", 1, now)
        updated == updateStatus(created, id, "success", Undef, t)
    IN  /\ Len(getCommand(created, id)) = 1
        /\ getCommand(created, id)[1].status = "pending"
        /\ Len(getCommand(updated, id)) = 1
        /\ getCommand(updated, id)[1].status = "success"
        /\ getCommand(updated, id)[1].completedAt # NoTime
        /\ getCommand(updated, id)[1].completedAt >= getCommand(updated, id)[1].createdAt

\* the print-label step of socket s was acknowledged as successful with job id k
Acknowledged(evs, s, k) ==
  \E i \in DOMAIN evs :
    /\ evs[i].ev = "callback" /\ evs[i].toSock = s
    /\ evs[i].p.success /\ evs[i].p.commandId = k

\* the print-command events of a step that carry job id k
Dispatches(evs, k) == {i \in DOMAIN evs : evs[i].ev = "print-command" /\ evs[i].p.commandId = k}

\* C10: every submit-job acknowledged as successful has, when its handler
\* completes, a ledger record with the acknowledged job id in status printing
\* whose assigned agent is the resolved target, and exactly one dispatch event
\* with that job id was sent, to the target agent's channel.
C10_AcknowledgedJobRecorded ==
  [][\A s \in Sockets, a \in 0..MaxAgents, r \in Rooms \cup {Undef} :
       (PrintLabel(s, a, r, TRUE) /\ Acknowledged(out', s, nextCommand')) =>
         LET target == resolveTarget(agents, a, Or(r, sock[s].restaurantId))
             record == getCommand(commands', nextCommand')
         IN  /\ Len(record) = 1
             /\ record[1].status = "printing"
             /\ record[1].agentId = target[1].id
             /\ Cardinality(Dispatches(out', nextCommand')) = 1
             /\ \A i \in Dispatches(out', nextCommand') :
                  out'[i].toSock = target[1].socketId /\ out'[i].toRoom = ""]_vars

(* ======================= claims: routing ============================== *)
\* the callback of a step answered socket s with this failure
Refused(evs, s, why) ==
  evs = <<[ev |-> "callback", toSock |-> s, toRoom |-> "",
           p |-> [success |-> FALSE, error |-> why]]>>

\* the events of a step with this name
Events(evs, ev) == {i \in DOMAIN evs : evs[i].ev = ev}

\* positions in the registry of the agents of a room, and of its ready agents
InRoom(room) == {i \in DOMAIN agents : agents[i].restaurantId = room}
ReadyInRoom(room) == {i \in InRoom(room) : agents[i].printerInfo = "ready"}

\* the least element of a non-empty set of positions
First(S) == CHOOSE i \in S : \A j \in S : i <= j

\* what every print-label step leaves alone
SubmitStep == now' = now /\ sock' = sock /\ agents' = agents /\ nextAgent' = nextAgent

\* an admitted print-label of socket s without a target, with room key r in the event
RoomSubmit(s, r) ==
  /\ check(requests, s, now)
  /\ Truthy(Or(r, sock[s].restaurantId))
  /\ PrintLabel(s, NoAgent, r, TRUE)

OverLimit(s) ==
  Cardinality({i \in DOMAIN requests[s] : now - requests[s][i] < windowMs}) >= maxRequests

\* the routing failure an admitted print-label with target a and room key r must
\* get, Undef when it can be routed
RoutingFailure(s, a, r) ==
  LET room == Or(r, sock[s].restaurantId)
  IN  IF ~Truthy(room) THEN "Restaurant ID is required"
      ELSE IF a # NoAgent /\ ~\E i \in DOMAIN agents : agents[i].id = a
      THEN "Target agent not found or offline"
      ELSE IF a = NoAgent /\ InRoom(room) = {}
      THEN "No online agents found for this restaurant"
      ELSE Undef

C14_AliasIsSameSubmit ==
  [][\A s \in Sockets, c \in Rooms :
       (PrintCommand(s, c) /\ Events(out', "print_job") # {}) =>
         /\ ~OverLimit(s)
         /\ requests'[s] = Append(requests[s], now)
         /\ nextCommand' = nextCommand + 1
         /\ \E rec \in Range(commands') : rec.id = nextCommand'
         /\ \A i \in Events(out', "print_job") : out'[i].toSock \in Sockets]_vars

(* ======================= claims: rate limiter ========================= *)
\* the verdicts of n successive check(key) calls made at time t, and the map after them
RECURSIVE Checks(_, _, _, _)
Checks(reqs, key, n, t) ==
  IF n = 0 THEN [verdicts |-> <<>>, reqs |-> reqs]
  ELSE LET before == Checks(reqs, key, n - 1, t)
       IN  [verdicts |-> Append(before.verdicts, check(before.reqs, key, t)),
            reqs |-> checkRequests(before.reqs, key, t)]

\* the calls of a key the limiter admitted during the window that ends at now
Admitted(key) == Cardinality({i \in DOMAIN requests[key] : now - requests[key][i] < windowMs})

\* C15: for a fixed key with window windowMs and cap maxRequests, check admits
\* exactly the first maxRequests calls made within a window, denies the next
\* call within that window, and admits again a call made once windowMs has
\* elapsed since the admitted calls.
C15_AdmitsFirstNPerWindow ==
  \A key \in Sockets :
    Admitted(key) <= maxRequests =>
      LET left == maxRequests - Admitted(key)
          burst == Checks(requests, key, left + 1, now)
          later == Checks(burst.reqs, key, maxRequests + 1, now + windowMs)
      IN  /\ \A i \in 1..left : burst.verdicts[i]
          /\ ~burst.verdicts[left + 1]
          /\ \A i \in 1..maxRequests : later.verdicts[i]
          /\ ~later.verdicts[maxRequests + 1]

\* C15 witness: a call of socket 1 was admitted at tick 1 after the calls it made
\* at tick 0 had left the window, and its next calls used up the new window
C15_Witness ==
  /\ now = windowMs
  /\ requests[1] = <<now, now>>
  /\ \E c \in Range(commands) : c.createdAt = 0
  /\ Refused(out, 1, "Rate limit exceeded. Please slow down.")

\* C16: in every reachable state each key's stored sequence holds only
\* timestamps t with now - t < windowMs, and after a compaction no key with an
\* empty in-window sequence remains in the map.
C16_OnlyWindowTimestampsStored ==
  /\ [](\A key \in Sockets : \A i \in DOMAIN requests[key] : now - requests[key][i] < windowMs)
  /\ [][LimiterSweep => \A key \in Sockets : Admitted(key) = 0 => requests'[key] = <<>>]_vars

\* C16, what holds: a compaction leaves every key with exactly its in-window
\* timestamps and no key whose in-window sequence is empty
C16_CompactionPrunes ==
  [][LimiterSweep =>
       \A key \in Sockets :
         /\ \A i \in DOMAIN requests'[key] : now - requests'[key][i] < windowMs
         /\ Len(requests'[key]) = Admitted(key)]_vars

(* ======================= claims: registry lifetime ==================== *)
\* positions of the registry records last seen before now - staleThreshold
Stale == {i \in DOMAIN agents : agents[i].lastSeen < now - staleThreshold}

\* C17: the sweep run at time now removes exactly the registry records whose
\* last-seen is earlier than now - staleThreshold and leaves every other record
\* present and unchanged, whether or not the record's connection is still open.
C17_SweepRemovesExactlyStale ==
  [][Sweep =>
       /\ \A i \in Stale : agents[i] \notin Range(agents')
       /\ \A i \in DOMAIN agents \ Stale : agents[i] \in Range(agents')
       /\ Range(agents') \subseteq Range(agents)
       /\ Len(agents') = Len(agents) - Cardinality(Stale)]_vars

\* C17 witness: the sweep took the record of a connection that is still open and
\* kept, unchanged, a record last seen at the time of the sweep
C17_Witness ==
  /\ \E s \in Sockets :
       /\ sock[s].phase = "open" /\ sock[s].agentId # NoAgent /\ sock[s].role = "agent"
       /\ getAgent(agents, sock[s].agentId) = <<>>
  /\ \E i \in DOMAIN agents : agents[i].lastSeen = now - staleThreshold
  /\ now > 0

\* the fields of a registry record that identify it: identity, channel, room, code
Identity(a) == <<a.id, a.socketId, a.restaurantId, a.code>>

\* C18: after a successful registration of identity id, getAgent(id) returns the
\* same record (same identity, channel, room and code) in every later state
\* until the disconnect of its connection or a stale sweep removes it; no event
\* of another connection removes or replaces it.
C18_RecordStableUntilRemoved ==
  [][\A i \in DOMAIN agents :
       \/ /\ Len(getAgent(agents', agents[i].id)) = 1
          /\ Identity(getAgent(agents', agents[i].id)[1]) = Identity(agents[i])
       \/ Disconnect(agents[i].socketId)
       \/ Sweep]_vars

\* C18 witness: two connections hold a record each in the same room; the first,
\* registered at tick 0, survived the registration of the second at tick 1
C18_Witness ==
  /\ Len(agents) = 2
  /\ agents[1].socketId # agents[2].socketId
  /\ agents[1].restaurantId = agents[2].restaurantId
  /\ agents[1].lastSeen = 0 /\ agents[2].lastSeen = 1
  /\ now = 1

\* C19: after the disconnect of a connection that held an agent identity, the
\* registry holds no record with that connection's channel id or identity, the
\* updated roster was broadcast to the agent's room, and the rate limiter holds
\* no entry for the connection's channel id.
C19_DisconnectDeregisters ==
  [][\A s \in Sockets :
       (Disconnect(s) /\ sock[s].agentId # NoAgent) =>
         /\ \A a \in Range(agents') : a.socketId # s /\ a.id # sock[s].agentId
         /\ \A a \in Range(agents) :
              a.id = sock[s].agentId =>
                \E i \in Events(out', "agents-updated") :
                  /\ out'[i].toRoom = a.restaurantId
                  /\ out'[i].p = getAgentsByRestaurant(agents', a.restaurantId)
         /\ requests'[s] = <<>>]_vars

(* ======================= claims: report-result ======================== *)
\* what every print-result step leaves alone
ReportStep ==
  /\ now' = now /\ sock' = sock /\ agents' = agents /\ requests' = requests
  /\ nextAgent' = nextAgent /\ nextCommand' = nextCommand

\* C20: a report-result for job id j moves the ledger record j to success when
\* success is true and to failed otherwise, recording the error text; a
\* job-completed event for j is broadcast to the record's room if and only if a
\* record with id j exists; a report for an unknown id changes nothing and
\* notifies no one.
C20_ReportMovesRecordAndNotifiesRoom ==
  [][ReportStep => \A s \in Sockets, j \in 1..MaxCommands, ok \in BOOLEAN :
       PrintResult(s, j, ok, IF ok THEN Undef ELSE "jam") =>
         IF \E c \in Range(commands) : c.id = j
         THEN /\ \A i \in DOMAIN commands :
                   IF commands[i].id = j
                   THEN /\ commands'[i].status = IF ok THEN "success" ELSE "failed"
                        /\ ~ok => commands'[i].error = "jam"
                        /\ commands'[i].restaurantId = commands[i].restaurantId
                        /\ out' = <<EmitRoom(commands[i].restaurantId, "print-completed",
                                             [commandId |-> j, success |-> ok,
                                              error |-> IF ok THEN Undef ELSE "jam"])>>
                   ELSE commands'[i] = commands[i]
              /\ Len(commands') = Len(commands)
         ELSE commands' = commands /\ out' = <<>>]_vars

\* C20 witness: a failure was reported for a job of room R1 while another job
\* is still printing; the room was told and the record holds the error text
C20_Witness ==
  /\ \E i \in DOMAIN out :
       /\ out[i].ev = "print-completed" /\ out[i].toRoom = "R1"
       /\ ~out[i].p.success
       /\ \E c \in Range(commands) :
            c.id = out[i].p.commandId /\ c.status = "failed" /\ c.error = "jam"
  /\ \E c \in Range(commands) : c.status = "printing"

(* ======================= claims: auth gate ============================ *)
\* the requests of a step to the credential store
StoreRequests(evs) == {i \in DOMAIN evs : evs[i].toRoom = "agent_tokens"}

\* agent tokens whose code part is lowercase, and agent tokens of the right shape
LowercaseCodeTokens == {"agent_r1"}
ShapedTokens == {"agent_R1", "agent_revoked", "agent_unknown"}

\* C21: an agent token that does not match the pattern (one with a lowercase
\* code part) is rejected with the format failure, and for that validation the
\* credential store is never queried nor its last-used marker updated; a token
\* matching the pattern proceeds to the store lookup.
C21_MalformedTokenNeverReachesStore ==
  [][\A s \in Sockets :
       /\ \A token \in LowercaseCodeTokens :
            Connect(s, "agent", token) => StoreRequests(out') = {}
       /\ \A token \in ShapedTokens :
            Connect(s, "agent", token) => out' = <<EmitStore("select", token)>>
       /\ sock[s].token \in LowercaseCodeTokens /\ sock[s].phase = "verifying" /\ sock'[s] # sock[s] =>
            /\ sock'[s].phase = "closed"
            /\ out' = <<EmitSock(s, "authentication_error",
                                 [code |-> "INVALID_AGENT_TOKEN", message |-> "format"])>>]_vars

\* C21 witness: the agent with the lowercase code part was turned away with the
\* format failure
C21_Witness ==
  \E s \in Sockets :
    /\ sock[s].token \in LowercaseCodeTokens
    /\ sock[s].phase = "closed"
    /\ out = <<EmitSock(s, "authentication_error",
                        [code |-> "INVALID_AGENT_TOKEN", message |-> "format"])>>

\* C22: when the store lookup finds an active token, validation returns valid
\* with the bound code whether the last-used update succeeds, fails or never
\* completes: the update neither decides nor delays the result, so the
\* connection is admitted by the step in which the lookup answered, and no
\* outcome of the update closes it.
C22_LastUsedUpdateOffCriticalPath ==
  [][\A s \in Sockets :
       /\ (VerifyDone(s, "none") /\ sock[s].token = "agent_R1") =>
            /\ sock'[s].phase = "open"
            /\ sock'[s].agentTokenVerified
            /\ sock'[s].verifiedRestaurantCode = "R1"
       /\ \A threw \in BOOLEAN : UpdateDone(s, threw) => sock'[s].phase # "closed"]_vars

\* session tokens jwt.verify accepts, with the user id they carry
ValidSessionUser(token) == IF token = "jwt_u1" THEN "u1" ELSE Null

\* C23: a connection that does not declare itself an agent stays open and can
\* register and join a room whether its session token is valid, invalid, expired
\* or missing, and its job is accepted whenever the limiter admits it and its
\* room has an agent; with an invalid or missing token it is anonymous: no user
\* id is attached to it or to its jobs.
C23_DashboardTokenOptional ==
  /\ [](\A s \in Sockets :
          sock[s].clientType = "web" /\ sock[s].phase = "open" =>
            /\ ENABLED RegisterAsClient(s, "web-client", "R1", TRUE)
            /\ ENABLED JoinRoom(s, "R1"))
  /\ [][\A s \in Sockets :
       /\ \A token \in {Undef, "jwt_u1", "jwt_bad"} :
            Connect(s, "web", token) =>
              sock'[s].phase = "open" /\ sock'[s].authUser = ValidSessionUser(token)
       /\ sock[s].clientType = "web" /\ sock[s].phase = "open" =>
            /\ sock'[s].phase = "open" \/ Disconnect(s)
            /\ (/\ PrintLabel(s, NoAgent, Undef, TRUE)
                /\ check(requests, s, now) /\ Truthy(sock[s].restaurantId)
                /\ InRoom(sock[s].restaurantId) # {}) =>
                 \E i \in SentTo(out', s, "callback") : out'[i].p.success
            /\ \A r \in {"R1", Undef} :
                 RegisterAsClient(s, "web-client", r, TRUE) =>
                   sock'[s].userId = IF ValidSessionUser(sock[s].token) = Null THEN Undef
                                     ELSE ValidSessionUser(sock[s].token)
            /\ \A c \in Range(commands') :
                 (PrintLabel(s, NoAgent, Undef, TRUE) /\ c.id = nextCommand + 1) =>
                   c.userId = IF ValidSessionUser(sock[s].token) = Null THEN "unknown"
                              ELSE ValidSessionUser(sock[s].token)]_vars

\* C23 witness: a client whose session token failed verification registered in
\* room R1 and its job was accepted and recorded without a user id
C23_Witness ==
  \E s \in Sockets :
    /\ sock[s].clientType = "web" /\ sock[s].token = "jwt_bad"
    /\ sock[s].phase = "open" /\ sock[s].role = "web-client" /\ "R1" \in sock[s].rooms
    /\ \E i \in DOMAIN out : out[i].ev = "callback" /\ out[i].toSock = s /\ out[i].p.success
    /\ \E c \in Range(commands) : c.id = nextCommand /\ c.userId = "unknown"
    /\ nextCommand > 0

(* ======================= claims: orphaned jobs ======================== *)
\* C24: the disconnect or the stale eviction of a job's target agent leaves the
\* ledger unchanged: a job in printing stays in printing until a report-result
\* for its id arrives, and no timeout or sweep changes or removes it (only the
\* capacity compaction of a create may drop it).
C24_OrphanedJobStaysPrinting ==
  [][/\ (Sweep \/ LimiterSweep \/ Tick \/ \E s \in Sockets : Disconnect(s)) => commands' = commands
     /\ \A i \in DOMAIN commands :
          commands[i].status = "printing" =>
            \/ commands[i] \in Range(commands')
            \/ nextCommand' # nextCommand /\ getCommand(commands', commands[i].id) = <<>>
            \/ \E s \in Sockets : PrintResult(s, commands[i].id, TRUE, Undef)]_vars

\* C24 witness: a job is still printing one tick after it was created, although
\* its target agent is gone from the registry
C24_Witness ==
  \E c \in Range(commands) :
    /\ c.status = "printing"
    /\ c.createdAt < now
    /\ getAgent(agents, c.agentId) = <<>>
    /\ \E s \in Sockets : sock[s].agentId = c.agentId /\ sock[s].phase = "closed"

(* ======================= claims: liveness of the sweep ================ *)
\* the registry holds a record of identity a whose last-seen is t
SeenAt(a, t) == \E i \in DOMAIN agents : agents[i].id = a /\ agents[i].lastSeen = t

\* the last-seen times the bounded clock can still leave behind by more than
\* staleThreshold
Lapsable == 0..(MaxTime - staleThreshold - 1)

\* C25: under weak fairness of the sweep and of the clock, a registry record
\* whose last-seen stays at t (no later heartbeat or status update) is eventually
\* removed although its connection never closes; and no sweep removes a record
\* whose last-seen is within staleThreshold of the time of the sweep.
C25_SilentRecordEventuallySwept ==
  /\ \A a \in 1..MaxAgents, t \in Lapsable : SeenAt(a, t) ~> ~SeenAt(a, t)
  /\ [][Sweep =>
         \A i \in DOMAIN agents :
           now - agents[i].lastSeen <= staleThreshold => agents[i] \in Range(agents')]_vars

\* C25 witness: every connection is open; the agent that fell silent at tick 0
\* has been swept and the agent that heartbeated after the clock moved is kept
C25_Witness ==
  /\ \A s \in Sockets : sock[s].phase = "open" /\ sock[s].agentId # NoAgent
  /\ \E s \in Sockets : getAgent(agents, sock[s].agentId) = <<>>
  /\ \E i \in DOMAIN agents : agents[i].lastSeen = now /\ now > 0
  /\ out = <<>>

(* ======================= claims: shared pairing code ================== *)
\* register_agent of socket s with pairing code c reaches the allocation of a new
\* identity: the code agrees with the token, the socket holds no identity yet
FreshRegister(s, c, cb) ==
  /\ ~codeMismatch(sock[s], c) /\ ~alreadyRegistered(sock[s])
  /\ RegisterAgent(s, c, Undef, cb)

\* C26: when a connection registers under pairing code c while another
\* connection already holds a record in room c, the registration succeeds with
\* an identity no record carries yet, its record joins room c, and every record
\* already in the registry stays where it was, unchanged.
C26_SamePairingCodeBothRegister ==
  [][\A s \in Sockets, c \in Rooms, cb \in BOOLEAN :
       (FreshRegister(s, c, cb) /\ InRoom(c) # {}) =>
         /\ Len(agents') = Len(agents) + 1
         /\ SubSeq(agents', 1, Len(agents)) = agents
         /\ LET r == agents'[Len(agents')]
            IN  /\ r.socketId = s /\ r.restaurantId = c
                /\ r.id = sock'[s].agentId
                /\ \A i \in DOMAIN agents : agents[i].id # r.id /\ agents[i].socketId # s
                /\ \E i \in SentTo(out', s, "agent_registered") :
                     out'[i].p.success /\ out'[i].p.agentId = r.id]_vars

\* C26 witness: two open connections, one of them verified by its token, hold
\* two records with distinct identities in room R1, registered in the same tick
C26_Witness ==
  /\ Len(agents) = 2
  /\ agents[1].id # agents[2].id /\ agents[1].socketId # agents[2].socketId
  /\ agents[1].restaurantId = "R1" /\ agents[2].restaurantId = "R1"
  /\ agents[1].lastSeen = agents[2].lastSeen
  /\ \A s \in Sockets : sock[s].phase = "open" /\ sock[s].agentId # NoAgent
  /\ \E s \in Sockets : sock[s].agentTokenVerified
  /\ Events(out, "agent_registered") # {}

(* ======================= claims: heartbeats ========================== *)
\* the registry after a refresh of identity a at time t: the records of a, if
\* any, carry last-seen t and are otherwise as before; every other record, the
\* order and the number of records are as before
Refreshed(a, t) ==
  /\ Len(agents') = Len(agents)
  /\ \A i \in DOMAIN agents :
       IF agents[i].id = a
       THEN /\ agents'[i].lastSeen = t
            /\ Identity(agents'[i]) = Identity(agents[i])
            /\ agents'[i].printerInfo = agents[i].printerInfo
            /\ agents'[i].userId = agents[i].userId
       ELSE agents'[i] = agents[i]

\* what a heartbeat of either event leaves alone: the ledger, the limiter, the
\* connections, and no roster event is sent to anyone
HeartbeatFrame ==
  /\ commands' = commands /\ requests' = requests /\ sock' = sock
  /\ nextAgent' = nextAgent /\ nextCommand' = nextCommand
  /\ Events(out', "agents-updated") = {} /\ Events(out', "connected-agents") = {}
  /\ Events(out', "room-agents") = {}

\* a heartbeat of socket s holding identity a / holding no identity
HeartbeatEffect(s) ==
  IF sock[s].agentId # NoAgent
  THEN Refreshed(sock[s].agentId, now) /\ HeartbeatFrame
  ELSE agents' = agents /\ HeartbeatFrame

RosterOf(e) == IF e.ev = "callback" THEN e.p.agents ELSE e.p

\* roster p lists exactly the registry records at the positions S, once each
ListsExactly(p, S) ==
  /\ Len(p) = Cardinality(S)
  /\ Range(p) = {agents[i] : i \in S}

\* a roster query of socket s answered for the registry positions S: every store
\* and the connection stay as they were, something is handed to s, nothing to
\* anyone else, and each roster handed over lists exactly those records
Answered(s, S) ==
  /\ agents' = agents /\ commands' = commands /\ requests' = requests /\ sock' = sock
  /\ nextAgent' = nextAgent /\ nextCommand' = nextCommand /\ now' = now
  /\ out' # <<>> /\ \A i \in DOMAIN out' : out'[i].toSock = s
  /\ \A i \in DOMAIN out' : ListsExactly(RosterOf(out'[i]), S)

\* C29: get-agents answers with the records of the connection's room, or with all
\* records when the connection has no room; get_connected_agents answers with all
\* records; get_agents_in_room(r) answers with the records of room r; none of the
\* three changes the registry, the ledger, the limiter or any connection.
C29_RosterQueriesReadOnly ==
  [][\A s \in Sockets, cb \in BOOLEAN :
       /\ GetAgents(s, cb) =>
            Answered(s, IF Truthy(sock[s].restaurantId)
                        THEN InRoom(sock[s].restaurantId) ELSE DOMAIN agents)
       /\ GetConnectedAgents(s, cb) => Answered(s, DOMAIN agents)
       /\ \A r \in Rooms : GetAgentsInRoom(s, r, cb) => Answered(s, InRoom(r))]_vars

\* C29 witness: with one agent in each room, a job in the ledger and a timestamp
\* in the limiter, a connection was handed a roster that lists one of the two
\* records only
C29_Witness ==
  /\ Len(agents) = 2 /\ agents[1].restaurantId # agents[2].restaurantId
  /\ commands # <<>> /\ \E s \in Sockets : requests[s] # <<>>
  /\ out # <<>>
  /\ \A i \in DOMAIN out :
       /\ out[i].ev \in {"agents-updated", "room-agents"}
       /\ Len(out[i].p) = 1 /\ out[i].p[1] \in Range(agents)

(* ======================= claims: join_room ============================ *)
\* C30: join_room(r) puts the connection into the broadcast scope of room r next
\* to the rooms it was in, and creates no agent identity: the registry and the
\* identity counter stay as they were, the connection keeps its role and its
\* agent id, and no other connection changes.
C30_JoinRoomCreatesNoIdentity ==
  [][\A s \in Sockets, r \in Rooms :
       JoinRoom(s, r) =>
         /\ sock'[s].rooms = sock[s].rooms \cup {r}
         /\ agents' = agents /\ nextAgent' = nextAgent
         /\ sock'[s].role = sock[s].role /\ sock'[s].agentId = sock[s].agentId
         /\ \A o \in Sockets \ {s} : sock'[o] = sock[o]]_vars

\* C30 witness: a connection that never registered sits in the scope of room R1,
\* where the other connection's agent is registered, and holds no role and no
\* agent id
C30_Witness ==
  \E s \in Sockets :
    /\ sock[s].phase = "open" /\ "R1" \in sock[s].rooms
    /\ sock[s].role = Undef /\ sock[s].agentId = NoAgent
    /\ Len(agents) = 1 /\ agents[1].restaurantId = "R1" /\ agents[1].socketId # s

(* ======================= claims: unknown job ids ====================== *)
\* the statuses and errors a caller may pass to updateStatus
Statuses == {"pending", "printing", "success", "failed"}
Errors == {Undef, "jam"}

\* job ids the ledger does not hold: never allocated, or dropped by compaction
UnknownIds == {k \in 1..(MaxCommands + 1) : getCommand(commands, k) = <<>>}

\* C31: updateStatus on an id the ledger does not hold returns the ledger as it
\* is, for every status and error; so a print-result for such an id leaves every
\* record as it was, creates none and announces nothing.
C31_UnknownIdIsNoOp ==
  /\ [](\A k \in UnknownIds, st \in Statuses, e \in Errors :
          updateStatus(commands, k, st, e, now) = commands)
  /\ [][\A s \in Sockets, k \in UnknownIds, ok \in BOOLEAN :
          PrintResult(s, k, ok, IF ok THEN Undef ELSE "jam") =>
            commands' = commands /\ out' = <<>>]_vars

\* C31 witness: the ledger is full and has dropped its oldest job, whose id is
\* now unknown, and the last step announced nothing
C31_Witness ==
  /\ Len(commands) = maxHistorySize /\ nextCommand > maxHistorySize
  /\ 1 \in UnknownIds /\ out = <<>>
  /\ \E c \in Range(commands) : c.status = "success"

(* ======================= claims: validation never throws ============== *)
\* the failures verifyAgentToken returns
TypedFailures == {"format", "revoked", "error"}

\* a result value of verifyAgentToken: a success with pairing code and token id,
\* or a failure with its error; never a rejection
TypedResult(v) ==
  /\ ~v.threw
  /\ IF v.valid THEN v.restaurantCode \in Rooms /\ Truthy(v.tokenId)
     ELSE v.error \in TypedFailures

\* socket s was refused with the failure the validation returned
RefusedWith(s) ==
  /\ sock'[s].phase = "closed"
  /\ \E i \in SentTo(out', s, "authentication_error") : out'[i].p.message \in TypedFailures

\* C32: for every token and every way the store ends the lookup or the
\* last-used update (answer, error result, exception), the validation of a
\* connecting agent ends with a result value: the connection is refused with the
\* returned failure or goes on with the returned pairing code; no connection is
\* left behind by an exception and no validation is stuck.
C32_ValidationAlwaysReturns ==
  /\ [](/\ \A token \in Tokens \ {Undef}, e \in StoreErrors :
             TypedResult(verifyAgentToken(token, e))
        /\ \A s \in Sockets :
             /\ sock[s].phase # "abandoned"
             /\ sock[s].phase = "verifying" => \A e \in StoreErrors : ENABLED VerifyDone(s, e)
             /\ sock[s].phase = "updating" => \A threw \in BOOLEAN : ENABLED UpdateDone(s, threw))
  /\ [][\A s \in Sockets :
          /\ \A e \in StoreErrors :
               VerifyDone(s, e) => RefusedWith(s) \/ sock'[s].phase = "updating"
          /\ \A threw \in BOOLEAN :
               UpdateDone(s, threw) =>
                 \/ RefusedWith(s)
                 \/ /\ sock'[s].phase = "open" /\ sock'[s].agentTokenVerified
                    /\ sock'[s].verifiedRestaurantCode \in Rooms]_vars

\* C32 witness: the store threw while an agent with an active token was being
\* validated, and the agent was refused with the failure of the catch block
C32_Witness ==
  \E s \in Sockets :
    /\ sock[s].phase = "closed" /\ sock[s].token = "agent_R1"
    /\ out = <<EmitSock(s, "authentication_error",
                        [code |-> "INVALID_AGENT_TOKEN", message |-> "error"])>>

(* ======================= claims: identity and record ================== *)
\* the registry holds the record of the identity socket s carries, on its channel
HasRecord(ags, s) ==
  \E i \in DOMAIN ags : ags[i].id = sock[s].agentId /\ ags[i].socketId = s

\* C33: every open connection that carries an agent id has the record of that
\* identity, on its own channel, in the registry; and a register_agent sent by an
\* open connection whose record the sweep has taken puts a record of that
\* connection back into the registry.
C33_IdentityHasRecord ==
  /\ [](\A s \in Sockets :
          sock[s].phase = "open" /\ sock[s].agentId # NoAgent => HasRecord(agents, s))
  /\ [][\A s \in Sockets, c \in Rooms, cb \in BOOLEAN :
          (/\ sock[s].agentId # NoAgent /\ ~HasRecord(agents, s)
           /\ ~codeMismatch(sock[s], c)
           /\ RegisterAgent(s, c, Undef, cb)) =>
            \E i \in DOMAIN agents' : agents'[i].socketId = s]_vars

(* ======================= claims: room isolation ======================= *)
\* C34: when a job is created, the agent it is assigned to has, at that moment, a
\* registry record whose room is the room of the job and whose channel is the one
\* the job is sent to - also when the submitter names the target agent.
C34_DispatchStaysInRoom ==
  [][nextCommand' # nextCommand =>
       \A c \in Range(commands') :
         c.id = nextCommand' =>
           \E i \in DOMAIN agents :
             /\ agents[i].id = c.agentId /\ agents[i].restaurantId = c.restaurantId
             /\ \E j \in Events(out', "print-command") : out'[j].toSock = agents[i].socketId]_vars

(* ======================= claims: who may report ======================= *)
\* C35: a print-result for a job, sent by a connection that does not carry the
\* identity of the job's assigned agent, leaves the ledger as it was and sends no
\* print-completed event.
C35_OnlyAssignedAgentReports ==
  [][\A s \in Sockets, k \in 1..MaxCommands, ok \in BOOLEAN :
       (/\ \E c \in Range(commands) : c.id = k /\ c.agentId # sock[s].agentId
        /\ PrintResult(s, k, ok, IF ok THEN Undef ELSE "jam")) =>
         /\ commands' = commands
         /\ Events(out', "print-completed") = {}]_vars

(* ======================= claims: room of the connection =============== *)
\* the registry records of the identity socket s carries
RecordsOf(s) == {i \in DOMAIN agents : agents[i].id = sock[s].agentId}

\* C36: in every reachable state the room stored in the state of an open
\* connection that carries an agent id is the room of its registry record (no room
\* on both sides counts as equal, be it null or undefined); so its disconnect
\* removes the record and sends the roster to the record's room.
C36_ConnectionRoomIsRecordRoom ==
  /\ [](\A s \in Sockets :
          sock[s].phase = "open" /\ sock[s].agentId # NoAgent =>
            \A i \in RecordsOf(s) :
              Or(sock[s].restaurantId, Null) = Or(agents[i].restaurantId, Null))
  /\ [][\A s \in Sockets :
          (Disconnect(s) /\ sock[s].agentId # NoAgent) =>
            \A i \in RecordsOf(s) :
              /\ agents[i] \notin Range(agents')
              /\ \E j \in Events(out', "agents-updated") :
                   out'[j].toRoom = agents[i].restaurantId]_vars

(* ======================= claims: token-bound room ===================== *)
\* C37: every registry record whose connection was verified by a pairing token
\* has the pairing code bound to that token as its room and as its code, whether
\* register_agent or register with role agent created it.
C37_VerifiedRecordInTokenRoom ==
  \A a \in Range(agents) :
    sock[a.socketId].agentTokenVerified =>
      /\ a.restaurantId = sock[a.socketId].verifiedRestaurantCode
      /\ a.code = sock[a.socketId].verifiedRestaurantCode

(* ======================= claims: events during validation ============= *)
\* socket s declared itself an agent and presented a token
Gated(s) == sock[s].clientType = "agent" /\ Truthy(sock[s].token)

\* the validation of socket s has not yet returned
Validating(s) == sock[s].phase \in {"verifying", "updating"}

\* this step is the validation of socket s receiving an answer of the store
ValidationStep(s) ==
  \/ \E e \in StoreErrors : VerifyDone(s, e)
  \/ \E threw \in BOOLEAN : UpdateDone(s, threw)

\* this step is a job event of socket o
JobStep(o) ==
  \/ PrintLabel(o, NoAgent, "R1", TRUE)
  \/ \E c \in 1..MaxCommands : PrintResult(o, c, TRUE, Undef)

\* C38: a connection that declared itself an agent and presented a token holds an
\* identity, a role, a registry record or a limiter entry only once its token is
\* validated; and while its validation is waiting for the store, whatever the
\* other connections do, its state changes only by the validation's own steps, no
\* record of its channel appears, no limiter entry of it is written, nothing but
\* the validation's verdict is sent to it, and the ledger changes only by a job
\* event of another connection.
C38_NothingBeforeValidation ==
  /\ [](\A s \in Sockets :
          (/\ Gated(s)
           /\ \/ sock[s].agentId # NoAgent \/ sock[s].role # Undef
              \/ requests[s] # <<>> \/ \E a \in Range(agents) : a.socketId = s) =>
            sock[s].agentTokenVerified /\ ~Validating(s))
  /\ [][\A s \in Sockets :
          Validating(s) =>
            /\ sock'[s] = sock[s] \/ ValidationStep(s)
            /\ requests'[s] = requests[s]
            /\ \A a \in Range(agents') : a.socketId # s
            /\ (\E i \in DOMAIN out' : out'[i].toSock = s) => ValidationStep(s)
            /\ commands' # commands => \E o \in Sockets \ {s} : JobStep(o)]_vars

\* C38 witness: the validation of socket 1 is still waiting for the last-used
\* update while the other connection has registered and a job of its is in the
\* ledger
C38_Witness ==
  \E s \in Sockets :
    /\ Gated(s) /\ sock[s].phase = "updating"
    /\ sock[s].agentId = NoAgent /\ requests[s] = <<>>
    /\ \E a \in Range(agents) : a.socketId # s
    /\ commands # <<>> /\ Events(out, "print-command") # {}


(* ======================= claims: the sliding window ==================== *)
\* the admitted calls of a history whose times lie in the interval [a, a + w)
InInterval(hist, a, w) == Cardinality({i \in DOMAIN hist : a <= hist[i] /\ hist[i] < a + w})

\* the admitted calls of a history that a call at the clock's time finds in its window
InWindow(hist, w) == Cardinality({i \in DOMAIN hist : now - hist[i] < w})

\* a step in which a history got no new entry
Denied(hist) == hist' = hist

\* C39: for every key and every interval of the window's length (closed at its
\* start, open at its end), at most cap calls of the key are admitted within it,
\* whatever the times of the calls; a call is admitted exactly when fewer than
\* cap admitted calls lie within the window before it, and a denied call leaves
\* the stored timestamps as they were, so it never postpones the next admission.
\* Checked for SocketRateLimiter.check and for rateLimitMiddleware.
C39_AtMostCapPerWindow ==
  /\ [](\A a \in 0..MaxCallTime :
          /\ \A key \in Sockets : InInterval(admitted.check[key], a, windowMs) <= maxRequests
          /\ \A ip \in Addresses :
               InInterval(admitted.connection[ip], a, connectionWindowMs) <= maxConnections)
  /\ [][/\ \A key \in Sockets :
             Check(key) =>
               /\ ~Denied(admitted.check[key]) <=> InWindow(admitted.check[key], windowMs) < maxRequests
               /\ Denied(admitted.check[key]) => requests' = requests
        /\ \A s \in RelaySockets : \A h \in RelayHandshakes :
             RelayConnect(s, h[1], h[2]) =>
               /\ ~Denied(admitted.connection[address(s)])
                    <=> InWindow(admitted.connection[address(s)], connectionWindowMs) < maxConnections
               /\ Denied(admitted.connection[address(s)])
                    => relay'.connectionLimits = relay.connectionLimits]_vars

\* C39 witness: an address was admitted at ticks 0, 1 and 2, the third time because
\* the first admission had left the window, and its next connection at tick 2 was
\* refused; a key of the socket limiter has used up a second window
C39_Witness ==
  /\ now = connectionWindowMs
  /\ admitted.connection["10.0.0.1"] = <<0, 1, 2>>
  /\ relay.connectionLimits["10.0.0.1"] = <<1, 2>>
  /\ out = <<EmitSock(1, "connect_error", "connection limit")>>
  /\ Len(admitted.check[1]) > maxRequests


(* ======================= claims: the pairing-code relay ================ *)
\* the agent slot of a pairing code, NoSocket when the code has no agent
Slot(code) == relay.connections[code].agent

\* C40: in the relay build a register_agent under a code takes the code's agent
\* slot; while the connection in the slot stays open the slot keeps pointing to
\* it and no agent_disconnected is sent for the code, unless another agent
\* registers under the code in that step (the disconnect of an agent that was
\* replaced changes nothing); and a print_command of a browser registered under
\* the code is forwarded to the open connection in the slot.
C40_LastAgentHoldsSlot ==
  [][/\ \A s \in RelaySockets, code \in RelayCodes :
          RelayRegisterAgent(s, code) => relay'.connections[code].agent = s
     /\ \A code \in RelayCodes :
          Slot(code) # NoSocket /\ relay.open[Slot(code)] /\ relay'.open[Slot(code)] =>
            \/ /\ relay'.connections[code].agent = Slot(code)
               /\ \A i \in Events(out', "agent_disconnected") : out'[i].p # code
            \/ \E s \in RelaySockets \ {Slot(code)} : RelayRegisterAgent(s, code)
     /\ \A b \in RelaySockets, code \in RelayCodes :
          /\ RelayPrintCommand(b)
          /\ relay.browsers[b] = code
          /\ Slot(code) # NoSocket /\ relay.open[Slot(code)]
          => \E i \in Events(out', "print_job") : out'[i].toSock = Slot(code)]_vars

====
